---- MODULE Spec2Model ----
(***************************************************************************)
(* Model of the name-matching and review engine of src/engine.py           *)
(* (NameMatcher, ReviewEngine) and of the window of                        *)
(* src/name_checker_gui.py (App) with its review and sync workers.         *)
(*                                                                         *)
(* A Python str is a sequence of characters; a character is a TLA+ string. *)
(* ASCII characters stand for themselves, a Hangul syllable is written by  *)
(* its romanisation ("gong" is U+ACF5), "NL" is the line feed.             *)
(***************************************************************************)
EXTENDS Integers, Sequences, FiniteSets, TLC

VARIABLES master_names, similarity_cache, pc, op, app

vars == <<master_names, similarity_cache, pc, op, app>>

-----------------------------------------------------------------------------
(* Character classes *)

Digits == {"0", "1", "2", "3", "4", "5", "6"}

Latin == {"a", "b", "c", "d", "w", "x", "y", "z", "p", "q", "r", "s",
          "A", "B", "N", "O", "n", "o"}

Hangul == {"gong", "sa", "myeong", "eop", "hyeon", "jang", "peu", "ro",
           "jek", "teu", "il", "chi", "yeo", "bu", "bul", "pan", "jeong",
           "gyeol", "gwa", "ching", "bi", "go", "gu", "bun", "beon", "ho",
           "hap", "gye", "so", "chong"}

\* the class [0-9A-Za-z가-힣] of the token-boundary lookarounds
IsTokenChar(c) == c \in Digits \cup Latin \cup Hangul

\* str.strip() / \s : the whitespace characters of the model
IsSpace(c) == c \in {" ", "NL"}

-----------------------------------------------------------------------------
(* Python string primitives *)

None == [status |-> "None"]

Min(S) == CHOOSE x \in S : \A y \in S : x <= y

Max(S) == CHOOSE x \in S : \A y \in S : x >= y

\* s[i:j] with 0-based half-open Python indices written 1-based inclusive
Slice(s, i, j) == IF i > j THEN <<>> ELSE SubSeq(s, i, j)

Strip(s) ==
    LET keep == {i \in 1..Len(s) : ~IsSpace(s[i])}
    IN  IF keep = {} THEN <<>> ELSE SubSeq(s, Min(keep), Max(keep))

StartsWith(s, t) ==
    /\ Len(t) <= Len(s)
    /\ SubSeq(s, 1, Len(t)) = t

EndsWith(s, t) ==
    /\ Len(t) <= Len(s)
    /\ SubSeq(s, Len(s) - Len(t) + 1, Len(s)) = t

\* text[pos:].startswith(t), pos 1-based
MatchesAt(s, pos, t) ==
    /\ pos + Len(t) - 1 <= Len(s)
    /\ SubSeq(s, pos, pos + Len(t) - 1) = t

Contains(seq, x) == \E i \in 1..Len(seq) : seq[i] = x

RECURSIVE Join(_, _)
Join(parts, sep) ==
    IF Len(parts) = 0 THEN <<>>
    ELSE IF Len(parts) = 1 THEN parts[1]
    ELSE parts[1] \o sep \o Join(Tail(parts), sep)

\* str.replace(c, '') for a single character
RemoveChars(s, cs) == SelectSeq(s, LAMBDA c : c \notin cs)

\* str.isdigit()
IsDigit(s) == Len(s) > 0 /\ \A i \in 1..Len(s) : s[i] \in Digits

-----------------------------------------------------------------------------
(* The parenthetical regular expressions *)

\* end index of a match of ^\([^)]*\) (minLen = 0) or ^\([^)]+\) (minLen = 1)
\* at the start of s, 0 when there is none
LeadingGroupEnd(s, minLen) ==
    IF Len(s) = 0 \/ s[1] # "(" THEN 0
    ELSE LET closes == {k \in 2..Len(s) : s[k] = ")"}
         IN  IF closes = {} THEN 0
             ELSE IF Min(closes) - 2 >= minLen THEN Min(closes) ELSE 0

\* start index of the match of re.search(r'\([^)]+\)$', s), 0 when none
TrailingGroupStart(s) ==
    LET n == Len(s)
        starts == {i \in 1..n : /\ s[i] = "("
                                /\ n - i >= 2
                                /\ s[n] = ")"
                                /\ \A k \in (i + 1)..(n - 1) : s[k] # ")"}
    IN  IF starts = {} THEN 0 ELSE Min(starts)

_remove_prefix(name) ==
    LET e == LeadingGroupEnd(name, 0)
    IN  Strip(Slice(name, e + 1, Len(name)))

_has_prefix(name) == LeadingGroupEnd(name, 1) > 0

\* re.match(r'^\([^)]+\)', text).group(), '' when there is no match
LeadingPrefix(text) == Slice(text, 1, LeadingGroupEnd(text, 1))

\* re.search(r'\([^)]+\)$', s).group(), '' when there is no match
TrailingSuffix(s) ==
    LET i == TrailingGroupStart(s)
    IN  IF i = 0 THEN <<>> ELSE SubSeq(s, i, Len(s))

-----------------------------------------------------------------------------
(* Program constants *)

\* len(clean) <= 2 in _is_excluded
MaxExcludedLen == 2

\* len(text) < 3 in find_all_in_text
MinTextLen == 3

\* len(bare) < 4 or len(normalized) < 4 in _find_containing_matches
MinContainLen == 4

\* len(normalized) - len(candidate_bare) <= 1 in check
TypoAppendLen == 1

\* best_score >= 0.7, as the fraction ThresholdNum / ThresholdDen
ThresholdNum == 7

ThresholdDen == 10

\* len(source_text) > 80 in review_file
MaxFallbackLen == 80

-----------------------------------------------------------------------------
(* NameMatcher: the index built by __init__ from the master list `names` *)

EXCLUDE_WORDS ==
    { <<"gong", "sa", "myeong">>, <<"sa", "eop", "myeong">>,
      <<"hyeon", "jang", "myeong">>, <<"peu", "ro", "jek", "teu", "myeong">>,
      <<"peu", "ro", "jek", "teu">>, <<"il", "chi", "yeo", "bu">>,
      <<"il", "chi">>, <<"bul", "il", "chi">>, <<"pan", "jeong">>,
      <<"gyeol", "gwa">>, <<"gong", "sa", "myeong", "ching">>,
      <<"myeong", "ching">>, <<"bi", "go">>, <<"gu", "bun">>,
      <<"beon", "ho">>, <<"N", "o">>, <<"n", "o">>, <<"N", "O">>,
      <<"hap", "gye">>, <<"so", "gye">>, <<"chong", "gye">> }

\* fault: the set is built without the first name of the list
master_set_without_first(names) == {names[i] : i \in 2..Len(names)}

master_set(names) == {names[i] : i \in 1..Len(names)}

\* found.append(x) under `if x not in found`
AppendNew(found, x) == IF Contains(found, x) THEN found ELSE Append(found, x)

\* the keys of bare_to_official, in insertion order
RECURSIVE bare_names(_)
bare_names(names) ==
    IF Len(names) = 0 THEN <<>>
    ELSE AppendNew(bare_names(SubSeq(names, 1, Len(names) - 1)),
                   _remove_prefix(names[Len(names)]))

bare_set(names) == {_remove_prefix(names[i]) : i \in 1..Len(names)}

\* bare_to_official[bare]: the names sharing one bare body, in input order
bare_to_official(names, bare) ==
    SelectSeq(names, LAMBDA n : _remove_prefix(n) = bare)

master_suffixes(names) ==
    {TrailingSuffix(b) : b \in bare_set(names)} \ {<<>>}

min_bare_length(names) ==
    IF Len(names) = 0 THEN 0
    ELSE Min({Len(b) : b \in bare_set(names)})

\* the index of the first of the longest items
FirstLongest(items) ==
    Min({i \in 1..Len(items) :
            \A j \in 1..Len(items) : Len(items[j]) <= Len(items[i])})

\* items without the one at index k
Without(items, k) ==
    SubSeq(items, 1, k - 1) \o SubSeq(items, k + 1, Len(items))

\* sorted(items, key=len, reverse=True): stable, longest first
RECURSIVE SortedByLenDesc(_)
SortedByLenDesc(items) ==
    IF Len(items) = 0 THEN <<>>
    ELSE <<items[FirstLongest(items)]>>
         \o SortedByLenDesc(Without(items, FirstLongest(items)))

\* a compiled alternation: its alternatives in order, and whether the
\* token-boundary lookarounds surround it; no alternative never matches
_compile_alternation(items, with_token_boundary) ==
    [items    |-> SelectSeq(items, LAMBDA it : Len(it) > 0),
     boundary |-> with_token_boundary]

_bare_pattern(names) ==
    _compile_alternation(SortedByLenDesc(bare_names(names)), TRUE)

_official_pattern(names) ==
    _compile_alternation(SortedByLenDesc(names), FALSE)

\* alternative it matches at 1-based position pos, lookarounds included
AltMatches(pattern, text, pos, it) ==
    /\ MatchesAt(text, pos, it)
    /\ pattern.boundary =>
         /\ pos = 1 \/ ~IsTokenChar(text[pos - 1])
         /\ \/ pos + Len(it) - 1 = Len(text)
            \/ ~IsTokenChar(text[pos + Len(it)])

\* the first of the alternatives with indices in hits, <<>> when none
FirstAlternative(pattern, hits) ==
    IF hits = {} THEN <<>> ELSE pattern.items[Min(hits)]

\* the alternative the regex engine takes at 1-based position pos (the first
\* in order that matches with its lookarounds), <<>> when none does
AltMatchAt(pattern, text, pos) ==
    FirstAlternative(pattern,
        {i \in 1..Len(pattern.items) :
            AltMatches(pattern, text, pos, pattern.items[i])})

\* the 1-based positions from pos on where the pattern matches
MatchStarts(pattern, text, pos) ==
    {p \in pos..Len(text) : AltMatchAt(pattern, text, p) # <<>>}

\* pattern.finditer(text) from 1-based position pos: the non-overlapping
\* matches left to right, each with its 0-based start
RECURSIVE FindIterFrom(_, _, _)

\* the scan from the match m at position pos on
FindIterMatch(pattern, text, pos, m) ==
    <<[start |-> pos - 1, group |-> m]>>
    \o FindIterFrom(pattern, text, pos + Len(m))

\* the scan that finds the next match among starts
FindIterStep(pattern, text, starts) ==
    IF starts = {} THEN <<>>
    ELSE FindIterMatch(pattern, text, Min(starts),
                       AltMatchAt(pattern, text, Min(starts)))

FindIterFrom(pattern, text, pos) ==
    FindIterStep(pattern, text, MatchStarts(pattern, text, pos))

FindIter(pattern, text) == FindIterFrom(pattern, text, 1)

\* the second step of _normalize: result is the text without prefix, i the
\* start of its trailing group (0 for none)
StripNoiseSuffix(names, result, i) ==
    IF i > 0 /\ SubSeq(result, i, Len(result)) \notin master_suffixes(names)
    THEN Strip(Slice(result, 1, i - 1))
    ELSE result

NormalizeBare(names, result) ==
    StripNoiseSuffix(names, result, TrailingGroupStart(result))

_normalize(names, text) == NormalizeBare(names, _remove_prefix(text))

\* fault: the all-digits test is left out
_is_excluded_without_digits(text) ==
    \/ Strip(text) \in EXCLUDE_WORDS
    \/ Len(Strip(text)) <= MaxExcludedLen

_is_excluded(text) ==
    \/ Strip(text) \in EXCLUDE_WORDS
    \/ Len(Strip(text)) <= MaxExcludedLen
    \/ IsDigit(RemoveChars(Strip(text), {" ", "-", "."}))

\* fault: only the bare bodies that the text starts with are taken
ContainHitOneWay(bare, normalized) ==
    /\ ~(Len(bare) < MinContainLen \/ Len(normalized) < MinContainLen)
    /\ StartsWith(normalized, bare)

\* the test of _find_containing_matches on one bare body
ContainHit(bare, normalized) ==
    /\ ~(Len(bare) < MinContainLen \/ Len(normalized) < MinContainLen)
    /\ StartsWith(bare, normalized) \/ StartsWith(normalized, bare)

\* the loop of _find_containing_matches over the first k bare bodies
RECURSIVE ContainingUpTo(_, _, _, _)
ContainingUpTo(names, bares, normalized, k) ==
    IF k = 0 THEN <<>>
    ELSE ContainingUpTo(names, bares, normalized, k - 1)
         \o (IF ContainHit(bares[k], normalized)
             THEN bare_to_official(names, bares[k]) ELSE <<>>)

_find_containing_matches(names, normalized) ==
    ContainingUpTo(names, bare_names(names), normalized,
                   Len(bare_names(names)))

\* where the bare body starts after the group closed at k: past the blanks
AfterBlanks(text, k) ==
    Min({j \in (k + 1)..(Len(text) + 1) :
            j = Len(text) + 1 \/ ~IsSpace(text[j])})

\* the end index of bare at b when it is there and no token character
\* follows, 0 otherwise
BareEndAt(text, bare, b) ==
    IF /\ MatchesAt(text, b, bare)
       /\ \/ b + Len(bare) - 1 = Len(text)
          \/ ~IsTokenChar(text[b + Len(bare)])
    THEN b + Len(bare) - 1 ELSE 0

\* the group that opens at i, closed at the first of closes
PrefixedEndFrom(text, bare, i, closes) ==
    IF closes = {} \/ Min(closes) < i + 2 THEN 0
    ELSE BareEndAt(text, bare, AfterBlanks(text, Min(closes)))

\* the match of (\([^)]+\)\s*bare)(?![0-9A-Za-z가-힣]) that starts at i:
\* its end index, 0 when the expression does not match there
PrefixedEndAt(text, bare, i) ==
    IF text[i] # "(" THEN 0
    ELSE PrefixedEndFrom(text, bare, i,
                         {k \in (i + 1)..Len(text) : text[k] = ")"})

\* group(1).strip() of the leftmost match, which starts at one of starts
PrefixedFrom(text, bare, starts) ==
    IF starts = {} THEN <<>>
    ELSE Strip(SubSeq(text, Min(starts),
                      PrefixedEndAt(text, bare, Min(starts))))

\* returns the candidate, or the empty string for None (both are falsy in
\* the callers' `if prefixed`)
_extract_prefixed_candidate(text, bare) ==
    PrefixedFrom(text, bare,
                 {i \in 1..Len(text) : PrefixedEndAt(text, bare, i) > 0})

-----------------------------------------------------------------------------
(* difflib.SequenceMatcher(None, a, b).ratio() *)

\* the length of the common run of a from i and b from j
RECURSIVE RunLen(_, _, _, _)
RunLen(a, b, i, j) ==
    IF i > Len(a) \/ j > Len(b) THEN 0
    ELSE IF a[i] # b[j] THEN 0
    ELSE 1 + RunLen(a, b, i + 1, j + 1)

\* the first in a, then in b, of the start pairs in longest
EarliestOf(longest) ==
    CHOOSE t \in longest :
        \A u \in longest : t[1] < u[1] \/ (t[1] = u[1] /\ t[2] <= u[2])

\* the block of length k that starts earliest
LongestOfLength(a, b, pairs, k) ==
    <<EarliestOf({t \in pairs : RunLen(a, b, t[1], t[2]) = k})[1],
      EarliestOf({t \in pairs : RunLen(a, b, t[1], t[2]) = k})[2],
      k>>

\* among the pairs of equal characters
LongestAmong(a, b, pairs) ==
    IF pairs = {} THEN <<1, 1, 0>>
    ELSE LongestOfLength(a, b, pairs,
                         Max({RunLen(a, b, t[1], t[2]) : t \in pairs}))

\* find_longest_match: the longest common block <<i, j, size>>, the one
\* starting earliest in a and then earliest in b among the longest; size 0
\* when there is none
LongestMatch(a, b) ==
    LongestAmong(a, b,
                 {t \in (1..Len(a)) \X (1..Len(b)) : a[t[1]] = b[t[2]]})

\* get_matching_blocks: the total size of the blocks found by recursing to
\* the left and to the right of the longest one
RECURSIVE MatchingSize(_, _)

\* around the longest block m
MatchingAround(a, b, m) ==
    IF m[3] = 0 THEN 0
    ELSE m[3]
         + MatchingSize(Slice(a, 1, m[1] - 1), Slice(b, 1, m[2] - 1))
         + MatchingSize(Slice(a, m[1] + m[3], Len(a)),
                        Slice(b, m[2] + m[3], Len(b)))

MatchingSize(a, b) == MatchingAround(a, b, LongestMatch(a, b))

\* ratio() = 2.0 * matches / (len(a) + len(b)), 1.0 for two empty strings;
\* the float is kept as the fraction <<numerator, denominator>>
Ratio(a, b) ==
    IF Len(a) + Len(b) = 0 THEN <<1, 1>>
    ELSE <<2 * MatchingSize(a, b), Len(a) + Len(b)>>

\* x > y and x >= y on fractions with positive denominators
FracGT(x, y) == x[1] * y[2] > y[1] * x[2]

FracGE(x, y) == x[1] * y[2] >= y[1] * x[2]

\* fault: best_score > 0.7
AtThresholdStrict(score) == FracGT(score, <<ThresholdNum, ThresholdDen>>)

\* best_score >= 0.7
AtThreshold(score) == FracGE(score, <<ThresholdNum, ThresholdDen>>)
\* fault: the better score is kept without the name it belongs to
BetterOfScoreOnly(best, name, score) ==
    IF FracGT(score, best.best_score)
    THEN [best_name |-> best.best_name, best_score |-> score]
    ELSE best

\* one turn of the loop of _best_similarity: the best so far against the
\* score of a bare body with first canonical name `name`
BetterOf(best, name, score) ==
    IF FracGT(score, best.best_score)
    THEN [best_name |-> name, best_score |-> score]
    ELSE best
\* fault: the best score before the loop is 1.0
NoBestFullScore == [best_name |-> <<>>, best_score |-> <<1, 1>>]

\* best_name = None and best_score = 0.0 before the loop; best_name None is
\* the empty string
NoBest == [best_name |-> <<>>, best_score |-> <<0, 1>>]

\* the loop over the first k bare bodies
RECURSIVE BestUpTo(_, _, _, _)
BestUpTo(names, bares, text, k) ==
    IF k = 0 THEN NoBest
    ELSE BetterOf(BestUpTo(names, bares, text, k - 1),
                  bare_to_official(names, bares[k])[1],
                  Ratio(text, bares[k]))

ComputeBestSimilarity(names, text) ==
    BestUpTo(names, bare_names(names), text, Len(bare_names(names)))
\* fault: the result is returned, but stored with a full score
CachedFullScore(cache, text, result) ==
    [result |-> result,
     cache  |-> [t \in DOMAIN cache \cup {text} |->
                    IF t = text
                    THEN [best_name |-> result.best_name,
                          best_score |-> <<1, 1>>]
                    ELSE cache[t]]]

\* self._similarity_cache[text] = result
Cached(cache, text, result) ==
    [result |-> result,
     cache  |-> [t \in DOMAIN cache \cup {text} |->
                    IF t = text THEN result ELSE cache[t]]]

\* _best_similarity with its cache: the result and the cache afterwards
_best_similarity(names, cache, text) ==
    IF text \in DOMAIN cache
    THEN [result |-> cache[text], cache |-> cache]
    ELSE Cached(cache, text, ComputeBestSimilarity(names, text))

-----------------------------------------------------------------------------
(* NameMatcher.check *)

\* one reason of an issue text: "PrefixMissing" is '접두어 누락',
\* "PrefixMismatch" is '접두어 불일치' (with X→Y when from/to are given),
\* "UnneededSuffix" is '불필요한 후미 <from>', "Incomplete" is '명칭 불완전',
\* "Unresolvable" is '특정불가 (유사 <n>건)', "TypoSuspected" is
\* '오탈자 추정 (유사도 <n/d as a percentage>)'
Reason(kind, from, to, n, d) ==
    [kind |-> kind, from |-> from, to |-> to, n |-> n, d |-> d]

PlainReason(kind) == Reason(kind, <<>>, <<>>, 0, 1)

\* an issue text: its reasons (joined by ' + '), the arrow that follows
\* ('→ 공식:' is "official", '→ 후보:' is "candidates", the numbered list of
\* '특정불가' is "enumerated", "" for none) and the names listed after it
Issue(reasons, arrow, listed) ==
    [reasons |-> reasons, arrow |-> arrow, listed |-> listed]

EmptyIssue == Issue(<<>>, "", <<>>)

\* status '일치' is "Match", '불일치' is "Mismatch"
CheckResult(input, status, suggestion, issue) ==
    [input |-> input, status |-> status, suggestion |-> suggestion,
     issue |-> issue]

\* fault: only the first candidate is suggested
SlashJoinFirstOnly(officials) == officials[1]

\* ' / '.join(officials)
SlashJoin(officials) == Join(officials, <<" ", "/", " ">>)

\* fault: the prefixes are compared without the test for a missing one
PrefixReasonsCompareOnly(input_prefix, official_prefix) ==
    IF input_prefix # official_prefix
    THEN <<Reason("PrefixMismatch", input_prefix, official_prefix, 0, 1)>>
    ELSE <<>>

\* the prefix part of _describe_mismatch
PrefixReasons(input_prefix, official_prefix) ==
    IF input_prefix = <<>> THEN <<PlainReason("PrefixMissing")>>
    ELSE IF input_prefix # official_prefix
    THEN <<Reason("PrefixMismatch", input_prefix, official_prefix, 0, 1)>>
    ELSE <<>>

\* the suffix part: suffix is the trailing group of the input without its
\* prefix ('' for none)
SuffixReasons(suffix, official_bare) ==
    IF suffix # <<>> /\ ~EndsWith(official_bare, suffix)
    THEN <<Reason("UnneededSuffix", suffix, <<>>, 0, 1)>>
    ELSE <<>>

\* the returned text, '접두어 누락' when no reason was found
Described(reasons, official) ==
    Issue(IF reasons = <<>> THEN <<PlainReason("PrefixMissing")>>
          ELSE reasons,
          "official", <<official>>)

_describe_mismatch(original, normalized, input_prefix, official) ==
    Described(PrefixReasons(input_prefix, LeadingPrefix(official))
              \o SuffixReasons(TrailingSuffix(_remove_prefix(original)),
                               _remove_prefix(official)),
              official)

\* the index of the first of officials that is x, 0 when none is
FirstIndexOf(officials, x) ==
    IF Contains(officials, x)
    THEN Min({i \in 1..Len(officials) : officials[i] = x})
    ELSE 0

\* STEP 1 for several officials: the defensive exact match, then the name
\* that is input_prefix + normalized, then the candidate lists
BareHitAmong(text, normalized, input_prefix, officials) ==
    IF Contains(officials, text)
    THEN CheckResult(text, "Match", officials[FirstIndexOf(officials, text)],
                     EmptyIssue)
    ELSE IF input_prefix # <<>>
            /\ Contains(officials, input_prefix \o normalized)
    THEN CheckResult(text, "Mismatch", input_prefix \o normalized,
             _describe_mismatch(text, normalized, input_prefix,
                                input_prefix \o normalized))
    ELSE IF input_prefix # <<>>
    THEN CheckResult(text, "Mismatch", SlashJoin(officials),
             Issue(<<PlainReason("PrefixMismatch")>>, "candidates",
                   officials))
    ELSE CheckResult(text, "Mismatch", SlashJoin(officials),
             Issue(<<PlainReason("PrefixMissing")>>, "candidates",
                   officials))

\* STEP 1 with the officials of normalized and the prefix of the input
BareHitWith(text, normalized, input_prefix, officials) ==
    IF Len(officials) = 1
    THEN CheckResult(text, "Mismatch", officials[1],
             _describe_mismatch(text, normalized, input_prefix,
                                officials[1]))
    ELSE BareHitAmong(text, normalized, input_prefix, officials)

\* STEP 1 of check, for normalized in bare_to_official
CheckBareHit(names, text, normalized) ==
    BareHitWith(text, normalized, LeadingPrefix(text),
                bare_to_official(names, normalized))
\* fault: no input is taken for a typo of the bare body
NeverLikelyTypo(normalized, candidate_bare) == FALSE

\* likely_typo of STEP 2
LikelyTypo(normalized, candidate_bare) ==
    /\ StartsWith(normalized, candidate_bare)
    /\ Len(normalized) - Len(candidate_bare) <= TypoAppendLen

\* STEP 2 with the list containing
ContainingResult(text, normalized, containing) ==
    IF Len(containing) = 0 THEN None
    ELSE IF Len(containing) = 1
    THEN IF ~LikelyTypo(normalized, _remove_prefix(containing[1]))
         THEN CheckResult(text, "Mismatch", containing[1],
                  Issue(<<PlainReason("Incomplete")>>, "official",
                        <<containing[1]>>))
         ELSE None
    ELSE CheckResult(text, "Mismatch", SlashJoin(containing),
             Issue(<<Reason("Unresolvable", <<>>, <<>>,
                            Len(containing), 1)>>,
                   "enumerated", containing))

\* STEP 2 of check: the result of the containment rule, None when it is
\* skipped or does not apply
CheckContaining(names, text, normalized) ==
    ContainingResult(text, normalized,
                     _find_containing_matches(names, normalized))

\* STEP 3 and STEP 4 with the pair (best_name, best_score)
SimilarityResult(text, best) ==
    IF AtThreshold(best.best_score)
    THEN CheckResult(text, "Mismatch", best.best_name,
             Issue(<<Reason("TypoSuspected", <<>>, <<>>,
                            best.best_score[1], best.best_score[2])>>,
                   "official", <<best.best_name>>))
    ELSE None

\* with what _best_similarity returned and left in the cache
SimilarityWith(text, sim) ==
    [result |-> SimilarityResult(text, sim.result), cache |-> sim.cache]

\* STEP 3 and STEP 4 of check
CheckSimilarity(names, cache, text, normalized) ==
    SimilarityWith(text, _best_similarity(names, cache, normalized))

\* a return that leaves the cache as it is
Quiet(r, cache) == [result |-> r, cache |-> cache]

\* check after STEP 2 returned step2
CheckAfterContaining(names, cache, text, normalized, step2) ==
    IF step2 # None THEN Quiet(step2, cache)
    ELSE CheckSimilarity(names, cache, text, normalized)

\* check from the normalization on
CheckNormalized(names, cache, text, normalized) ==
    IF normalized \in bare_set(names)
    THEN Quiet(CheckBareHit(names, text, normalized), cache)
    ELSE CheckAfterContaining(names, cache, text, normalized,
             CheckContaining(names, text, normalized))

\* check on the stripped text
CheckStripped(names, cache, text) ==
    IF text = <<>> \/ _is_excluded(text) THEN Quiet(None, cache)
    ELSE IF text \in master_set(names)
    THEN Quiet(CheckResult(text, "Match", text, EmptyIssue), cache)
    ELSE CheckNormalized(names, cache, text, _normalize(names, text))

\* check(text): the returned dict (None for no result) and the cache after
check(names, cache, raw) == CheckStripped(names, cache, Strip(raw))

-----------------------------------------------------------------------------
(* NameMatcher.find_all_in_text *)

\* (C): the first k matches of the official pattern added to found
RECURSIVE OfficialsUpTo(_, _)
OfficialsUpTo(ms, k) ==
    IF k = 0 THEN <<>>
    ELSE AppendNew(OfficialsUpTo(ms, k - 1), ms[k].group)

\* (C): the canonical names found in the text, in scan order
FoundOfficials(names, text) ==
    OfficialsUpTo(FindIter(_official_pattern(names), text),
                  Len(FindIter(_official_pattern(names), text)))

\* (D) for a bare body with its officials and its prefixed candidate
AddBareMatchWith(found, bare, officials, prefixed) ==
    IF \/ Len(officials) = 0
       \/ \E i \in 1..Len(officials) : Contains(found, officials[i])
    THEN found
    ELSE IF prefixed # <<>> THEN AppendNew(found, prefixed)
    ELSE AppendNew(found, bare)

\* (D): one bare-body match added to found
AddBareMatch(names, text, found, bare) ==
    AddBareMatchWith(found, bare, bare_to_official(names, bare),
                     _extract_prefixed_candidate(text, bare))

\* (D): the first k matches of the bare pattern added to found
RECURSIVE BaresUpTo(_, _, _, _, _)
BaresUpTo(names, text, found, ms, k) ==
    IF k = 0 THEN found
    ELSE AddBareMatch(names, text, BaresUpTo(names, text, found, ms, k - 1),
                      ms[k].group)

FoundWithBares(names, text) ==
    BaresUpTo(names, text, FoundOfficials(names, text),
              FindIter(_bare_pattern(names), text),
              Len(FindIter(_bare_pattern(names), text)))

\* the similarity part of (E)
FallbackWith(text, sim) ==
    [result |-> IF AtThreshold(sim.result.best_score) THEN <<text>> ELSE <<>>,
     cache  |-> sim.cache]

\* (E): containment, then similarity, on a text with no regex match
FindByFallback(names, cache, text, norm) ==
    IF Len(_find_containing_matches(names, norm)) > 0
    THEN Quiet(<<text>>, cache)
    ELSE FallbackWith(text, _best_similarity(names, cache, norm))

\* from (C) on, with the list found by (C) and (D)
FindAfterPatterns(names, cache, text, norm, found) ==
    IF found # <<>> THEN Quiet(found, cache)
    ELSE FindByFallback(names, cache, text, norm)

\* from (B) on
FindNormalized(names, cache, text, norm) ==
    IF norm # text /\ norm \in bare_set(names) THEN Quiet(<<text>>, cache)
    ELSE IF Len(text) < min_bare_length(names) THEN Quiet(<<>>, cache)
    ELSE FindAfterPatterns(names, cache, text, norm,
                           FoundWithBares(names, text))

\* find_all_in_text on the stripped text
FindStripped(names, cache, text) ==
    IF Len(text) < MinTextLen \/ _is_excluded(text) THEN Quiet(<<>>, cache)
    ELSE IF text \in master_set(names) \/ text \in bare_set(names)
    THEN Quiet(<<text>>, cache)
    ELSE FindNormalized(names, cache, text, _normalize(names, text))

\* find_all_in_text(text): the returned list and the cache after
find_all_in_text(names, cache, raw) == FindStripped(names, cache, Strip(raw))

-----------------------------------------------------------------------------
(* ReviewEngine *)

\* one (location, raw_text) pair of the extracted text
Item(location, text) == [location |-> location, text |-> text]

\* one turn of the loop of _build_full_text_with_offsets: the stripped
\* text of a pair added to what was built before
BuiltWith(prev, location, text) ==
    IF text = <<>> THEN prev
    ELSE [parts   |-> Append(prev.parts, text),
          offsets |-> Append(prev.offsets,
                         [start    |-> prev.cursor,
                          end      |-> prev.cursor + Len(text),
                          location |-> location,
                          text     |-> text]),
          cursor  |-> prev.cursor + Len(text) + 1]

RECURSIVE BuiltUpTo(_, _)
BuiltUpTo(text_items, k) ==
    IF k = 0 THEN [parts |-> <<>>, offsets |-> <<>>, cursor |-> 0]
    ELSE BuiltWith(BuiltUpTo(text_items, k - 1), text_items[k].location,
                   Strip(text_items[k].text))

\* the returned triple
BuiltText(built) ==
    [full_text |-> Join(built.parts, <<"NL">>),
     starts    |-> [i \in 1..Len(built.offsets) |-> built.offsets[i].start],
     offsets   |-> built.offsets]

\* _build_full_text_with_offsets: offsets are 0-based, end exclusive
_build_full_text_with_offsets(text_items) ==
    BuiltText(BuiltUpTo(text_items, Len(text_items)))
\* fault: bisect_left in place of bisect_right
BisectLeft(starts, position) ==
    Cardinality({i \in 1..Len(starts) : starts[i] < position})

\* bisect.bisect_right(starts, position) on the sorted list starts
BisectRight(starts, position) ==
    Cardinality({i \in 1..Len(starts) : starts[i] <= position})

\* the checks of _find_offset_index on idx
OffsetIndexChecked(offsets, position, idx) ==
    IF idx < 0 \/ idx >= Len(offsets) THEN -1
    ELSE IF ~(offsets[idx + 1].start <= position
              /\ position < offsets[idx + 1].end) THEN -1
    ELSE idx

\* _find_offset_index: the 0-based index of the entry holding position, -1
\* when there is none
_find_offset_index(starts, offsets, position) ==
    OffsetIndexChecked(offsets, position, BisectRight(starts, position) - 1)

\* the state consume_candidate closes over: results, checked_results (as the
\* index of the candidate's entry in results), checked_locations, and the
\* matcher's cache; check_calls lists the arguments of matcher.check and
\* discovered the arguments of consume_candidate, in call order
CheckedIndex(st, candidate) ==
    IF \E i \in 1..Len(st.checked) : st.checked[i].candidate = candidate
    THEN Min({i \in 1..Len(st.checked) : st.checked[i].candidate = candidate})
    ELSE 0

WithLocation(r, location) ==
    [input |-> r.input, status |-> r.status, suggestion |-> r.suggestion,
     issue |-> r.issue, location |-> location]

CommaJoin(locs) == Join(locs, <<",", " ">>)

\* locs.append(location) and the location of the existing result rewritten
Relocated(st, c, locs) ==
    [st EXCEPT !.checked[c].locs = locs,
               !.results[st.checked[c].index].location = CommaJoin(locs)]

\* fault: the label is added without looking whether it is already listed
MergeLocationRepeated(st, c, location) ==
    IF st.results[st.checked[c].index].status = "Mismatch"
    THEN Relocated(st, c, Append(st.checked[c].locs, location))
    ELSE st

\* the branch of consume_candidate for a candidate already in
\* checked_results (entry c)
MergeLocation(st, c, location) ==
    IF /\ st.results[st.checked[c].index].status = "Mismatch"
       /\ ~Contains(st.checked[c].locs, location)
    THEN Relocated(st, c, Append(st.checked[c].locs, location))
    ELSE st

\* the branch for a new candidate, r being what matcher.check returned
Recorded(st, candidate, location, r) ==
    IF r.result = None
    THEN [st EXCEPT !.cache = r.cache,
                    !.check_calls = Append(@, candidate)]
    ELSE [st EXCEPT !.cache = r.cache,
                    !.check_calls = Append(@, candidate),
                    !.results = Append(@, WithLocation(r.result, location)),
                    !.checked = Append(@,
                        [candidate |-> candidate,
                         index     |-> Len(st.results) + 1,
                         locs      |-> <<location>>])]

\* consume_candidate, c being the entry of the candidate (0 for none)
ConsumeAt(names, st, candidate, location, c) ==
    IF c > 0 THEN MergeLocation(st, c, location)
    ELSE Recorded(st, candidate, location,
                  check(names, st.cache, candidate))

ConsumeSeen(names, st, candidate, location) ==
    ConsumeAt(names, st, candidate, location, CheckedIndex(st, candidate))

\* consume_candidate, which also notes the call in discovered
consume_candidate(names, st, candidate, location) ==
    ConsumeSeen(names,
                [st EXCEPT !.discovered =
                    Append(@, [candidate |-> candidate,
                               location |-> location])],
                candidate, location)

\* the index of the fragment that holds the start of match m, -1 for none
OffsetIndexOf(built, m) ==
    _find_offset_index(built.starts, built.offsets, m.start)

\* the matches whose start lies in a fragment
InFragments(built, ms) ==
    SelectSeq(ms, LAMBDA m : OffsetIndexOf(built, m) >= 0)

\* the event of a match for a candidate
Event(built, m, kind, candidate) ==
    [start |-> m.start, kind |-> kind, candidate |-> candidate,
     idx |-> OffsetIndexOf(built, m),
     location |-> built.offsets[OffsetIndexOf(built, m) + 1].location]

\* the events (start, 0, name, location) of the official-pattern matches
OfficialEventsOf(built, ms) ==
    [i \in 1..Len(ms) |-> Event(built, ms[i], 0, ms[i].group)]

\* the match events of the two regex passes over full_text, unsorted
OfficialEvents(names, built) ==
    OfficialEventsOf(built,
        InFragments(built,
                    FindIter(_official_pattern(names), built.full_text)))

\* prefixed if prefixed else bare
PrefixedOr(prefixed, bare) == IF prefixed # <<>> THEN prefixed ELSE bare

\* the candidate of a bare-pattern match: the prefixed form found in the
\* source fragment, or the bare body
BareCandidate(built, m) ==
    PrefixedOr(_extract_prefixed_candidate(
                   built.offsets[OffsetIndexOf(built, m) + 1].text, m.group),
               m.group)

\* the events (start, 1, candidate, location) of the bare-pattern matches
BareEventsOf(built, ms) ==
    [i \in 1..Len(ms) |-> Event(built, ms[i], 1, BareCandidate(built, ms[i]))]

BareEvents(names, built) ==
    BareEventsOf(built,
        InFragments(built, FindIter(_bare_pattern(names), built.full_text)))
\* fault: the events are left as they were appended
Unsorted(events) == events

\* the sort key (item[0], item[1])
EventKey(e) == 2 * e.start + e.kind

\* the index of the first of the events with the least key
FirstLeast(events) ==
    Min({i \in 1..Len(events) :
            \A j \in 1..Len(events) :
                EventKey(events[i]) <= EventKey(events[j])})

\* match_events.sort(key=lambda item: (item[0], item[1])): stable
RECURSIVE SortEvents(_)
SortEvents(events) ==
    IF Len(events) = 0 THEN <<>>
    ELSE <<events[FirstLeast(events)]>>
         \o SortEvents(Without(events, FirstLeast(events)))

match_events(names, built) ==
    SortEvents(OfficialEvents(names, built) \o BareEvents(names, built))

matched_offset_indices(events) ==
    {events[i].idx : i \in 1..Len(events)}

\* the first k regex events consumed in order
RECURSIVE ConsumeEventsUpTo(_, _, _, _)
ConsumeEventsUpTo(names, st, events, k) ==
    IF k = 0 THEN st
    ELSE consume_candidate(names, ConsumeEventsUpTo(names, st, events, k - 1),
                           events[k].candidate, events[k].location)

\* the regex events consumed in order
ConsumeEvents(names, st, events) ==
    ConsumeEventsUpTo(names, st, events, Len(events))

\* the first k candidates of a fragment's fallback search consumed in
\* order, found being what find_all_in_text returned
RECURSIVE ConsumeFoundUpTo(_, _, _, _, _)
ConsumeFoundUpTo(names, st, found, location, k) ==
    IF k = 0 THEN [st EXCEPT !.cache = found.cache]
    ELSE consume_candidate(names,
             ConsumeFoundUpTo(names, st, found, location, k - 1),
             found.result[k], location)

ConsumeFound(names, st, found, location) ==
    ConsumeFoundUpTo(names, st, found, location, Len(found.result))

\* the candidates of one fragment's fallback search consumed in order
ConsumeFallback(names, st, entry) ==
    ConsumeFound(names, [st EXCEPT !.locator_calls = Append(@, entry)],
                 find_all_in_text(names, st.cache, entry.text),
                 entry.location)
\* fault: the length of the fragment is not looked at
FallbackOnAnyLength(names, st, covered, idx, entry) ==
    IF idx \in covered THEN st
    ELSE ConsumeFallback(names, st, entry)

\* one fragment of the fallback loop
FallbackOn(names, st, covered, idx, entry) ==
    IF idx \in covered THEN st
    ELSE IF Len(entry.text) > MaxFallbackLen THEN st
    ELSE ConsumeFallback(names, st, entry)

\* the loop over the first k fragments
RECURSIVE FallbackUpTo(_, _, _, _, _)
FallbackUpTo(names, st, offsets, covered, k) ==
    IF k = 0 THEN st
    ELSE FallbackOn(names, FallbackUpTo(names, st, offsets, covered, k - 1),
                    covered, k - 1, offsets[k])

\* the loop over the fragments no regex matched
FallbackPass(names, st, built, covered) ==
    FallbackUpTo(names, st, built.offsets, covered, Len(built.offsets))

CountStatus(results, status) ==
    Cardinality({i \in 1..Len(results) : results[i].status = status})
\* fault: the overall status is decided without looking at total
OverallIgnoringTotal(total, mismatched) ==
    IF mismatched = 0 THEN "Compliant" ELSE "NeedsReview"

\* overall: '명칭없음' is "NoNamesFound", '적합' is "Compliant", '검토필요'
\* is "NeedsReview", '오류' is "ExtractionError"; error None is <<>>, a
\* message is <<message>>
Overall(total, mismatched) ==
    IF total = 0 THEN "NoNamesFound"
    ELSE IF mismatched = 0 THEN "Compliant"
    ELSE "NeedsReview"

FileResult(results) ==
    [total |-> Len(results), matched |-> CountStatus(results, "Match"),
     mismatched |-> CountStatus(results, "Mismatch"),
     overall |-> Overall(Len(results), CountStatus(results, "Mismatch")),
     details |-> results, error |-> <<>>]

\* what extract_text_from_file does: it raises, or returns text items
Raises(message) == [raises |-> TRUE, error |-> message, text_items |-> <<>>]

Extracted(text_items) ==
    [raises |-> FALSE, error |-> <<>>, text_items |-> text_items]
\* fault: the exception's text is dropped, error stays None
ExtractionFailedSilent(cache, message) ==
    [result |-> [total |-> 0, matched |-> 0, mismatched |-> 0,
                 overall |-> "ExtractionError", details |-> <<>>,
                 error |-> <<>>],
     cache |-> cache, check_calls |-> <<>>, locator_calls |-> <<>>,
     discovered |-> <<>>]

\* the except branch: the error result, no matcher call made
ExtractionFailed(cache, message) ==
    [result |-> [total |-> 0, matched |-> 0, mismatched |-> 0,
                 overall |-> "ExtractionError", details |-> <<>>,
                 error |-> <<message>>],
     cache |-> cache, check_calls |-> <<>>, locator_calls |-> <<>>,
     discovered |-> <<>>]

\* results, checked_results and checked_locations before the first call
StartOfReview(cache) ==
    [results |-> <<>>, checked |-> <<>>, check_calls |-> <<>>,
     locator_calls |-> <<>>, discovered |-> <<>>, cache |-> cache]

\* what review_file returns from the state of its closure
ReviewResult(final) ==
    [result |-> FileResult(final.results), cache |-> final.cache,
     check_calls |-> final.check_calls,
     locator_calls |-> final.locator_calls,
     discovered |-> final.discovered]

\* the two passes, events being the sorted match events
ReviewEvents(names, st, built, events) ==
    FallbackPass(names, ConsumeEvents(names, st, events), built,
                 matched_offset_indices(events))

\* review_file on the text built from the items
ReviewBuilt(names, cache, built) ==
    IF built.full_text = <<>> THEN ReviewResult(StartOfReview(cache))
    ELSE ReviewResult(ReviewEvents(names, StartOfReview(cache), built,
                                   match_events(names, built)))

\* review_file: the returned dict, the cache afterwards and the matcher
\* calls it made
review_file(names, cache, extraction) ==
    IF extraction.raises
    THEN ExtractionFailed(cache, extraction.error)
    ELSE ReviewBuilt(names, cache,
                     _build_full_text_with_offsets(extraction.text_items))

-----------------------------------------------------------------------------
(* _sanitize_master_names *)

\* a raw name that is None
RawNone == <<"None">>

\* str.lstrip("\ufeff"): the byte-order mark is the character "BOM", which
\* str.strip() does not take for whitespace
LStripBom(s) ==
    IF \A i \in 1..Len(s) : s[i] = "BOM" THEN <<>>
    ELSE SubSeq(s, Min({i \in 1..Len(s) : s[i] # "BOM"}), Len(s))

\* one turn of the loop, name being str(raw).strip().lstrip("\ufeff")
SanitizedWith(sanitized, name) ==
    IF name = <<>> \/ Contains(sanitized, name) THEN sanitized
    ELSE Append(sanitized, name)

\* the loop over the first k raw names
RECURSIVE SanitizedUpTo(_, _)
SanitizedUpTo(raw_names, k) ==
    IF k = 0 THEN <<>>
    ELSE IF raw_names[k] = RawNone THEN SanitizedUpTo(raw_names, k - 1)
    ELSE SanitizedWith(SanitizedUpTo(raw_names, k - 1),
                       LStripBom(Strip(raw_names[k])))

_sanitize_master_names(raw_names) == SanitizedUpTo(raw_names, Len(raw_names))

-----------------------------------------------------------------------------
(* Inputs *)

\* longest master list
MaxNames == 2

\* most text items of one document
MaxItems == 2

Paren(x) == <<"(">> \o x \o <<")">>

abcd == <<"a", "b", "c", "d">>

abcd12A == abcd \o <<"1", "2", "A">>

abcd34B == abcd \o <<"3", "4", "B">>

wxyz == <<"w", "x", "y", "z">>

\* '공사명', a member of EXCLUDE_WORDS
gongsamyeong == <<"gong", "sa", "myeong">>

d123456 == <<"1", "2", "3", "4", "5", "6">>

p_abcd12A == Paren(<<"p">>) \o abcd12A

q_abcd34B == Paren(<<"q">>) \o abcd34B

abcd12A_wxyz_s == Paren(abcd12A) \o wxyz \o Paren(<<"s">>)

p_gongsamyeong == Paren(<<"p">>) \o gongsamyeong

q_gongsamyeong == Paren(<<"q">>) \o gongsamyeong

p_q_abcd12A == Paren(<<"p">>) \o Paren(<<"q">>) \o abcd12A

\* canonical names: with a prefix, without one (sharing the bare body of the
\* first), with a bare body that shares its first four characters with
\* another, with a trailing suffix and a prefix that holds another bare
\* body, two with a header word as bare body, all digits, and with two
\* leading groups
NamePool ==
    {p_abcd12A, abcd12A, q_abcd34B, abcd12A_wxyz_s, p_gongsamyeong,
     q_gongsamyeong, d123456, p_q_abcd12A}

TextPrefixes == {<<>>, Paren(<<"p">>), Paren(<<"q">>)}

TextSuffixes == {<<>>, Paren(<<"x">>)}

\* texts taken with every prefix and suffix
CoreBodies == {abcd12A, abcd, wxyz \o Paren(<<"s">>)}

\* texts taken as they are: short ones, digits, a header word, a bare body
\* with one more character, two texts that share the 7 characters of
\* abcd12A and have 13 and 14 characters (ratio 14/20 and 14/21), several
\* trailing groups, surrounding blanks, a bare body followed by the same
\* bare body behind a parenthetical, an all-digits name with one more digit,
\* an all-digits name behind a word
PlainTexts ==
    {<<"a", "b", "c">>, abcd12A \o <<"3">>, <<"1", "2", "3", "4">>,
     <<"1", "-", "2">>, <<"N", "O">>, wxyz, gongsamyeong,
     <<"3">> \o abcd12A \o <<"3", "3", "3", "3", "3">>,
     <<"3">> \o abcd12A \o <<"3", "3", "3", "3", "3", "3">>,
     abcd12A \o Paren(<<"x">>) \o Paren(<<"y">>),
     <<" ">> \o abcd12A \o <<" ">>,
     abcd12A \o <<" ">> \o Paren(<<"q">>) \o abcd12A,
     d123456 \o <<"0">>, abcd \o <<" ">> \o d123456}

\* the texts given to _normalize, check and find_all_in_text
TextPool ==
    {pre \o body \o suf :
        pre \in TextPrefixes, body \in CoreBodies, suf \in TextSuffixes}
    \cup PlainTexts \cup NamePool

RECURSIVE ListsOver(_, _)
ListsOver(pool, n) ==
    IF n = 0 THEN {<<>>}
    ELSE LET shorter == ListsOver(pool, n - 1)
         IN  shorter \cup
             {Append(l, x) : l \in {m \in shorter : Len(m) = n - 1},
                             x \in pool}

NoDuplicate(l) == \A i, j \in 1..Len(l) : l[i] = l[j] => i = j

\* the lists _sanitize_master_names returns: no duplicate, no empty name
MasterLists == {l \in ListsOver(NamePool, MaxNames) : NoDuplicate(l)}

ReviewNamePool == {p_abcd12A, q_abcd34B, abcd12A_wxyz_s, d123456}

ReviewMasterLists ==
    {l \in ListsOver(ReviewNamePool, MaxNames) : NoDuplicate(l)}

\* x followed by as many of the letter z as make n characters
Padded(x, n) == x \o [i \in 1..(n - Len(x)) |-> "z"]

\* the texts of a document's items
ItemTexts ==
    {abcd, abcd12A, p_abcd12A, abcd12A_wxyz_s, <<" ">>,
     abcd12A \o <<" ">> \o abcd12A, d123456}

\* the texts of the items of a document with long fragments: one as long as
\* the fallback search allows, one a character longer, and a bare body
LongItemTexts ==
    {Padded(abcd12A, MaxFallbackLen), Padded(abcd12A, MaxFallbackLen + 1),
     abcd12A}

\* the location label of the k-th item, a cell coordinate
Label(k) == <<"A", <<"1", "2", "3">>[k]>>

Documents ==
    {[k \in 1..Len(texts) |-> Item(Label(k), texts[k])] :
        texts \in ListsOver(ItemTexts, MaxItems)
                  \cup ListsOver(LongItemTexts, MaxItems)}

ErrorMessages == {<<>>, <<"b", "a", "d">>}

Extractions ==
    {Extracted(d) : d \in Documents} \cup {Raises(e) : e \in ErrorMessages}

-----------------------------------------------------------------------------
(* The matcher as a state machine *)

EmptyCache == [t \in {} |-> None]

Idle == [name |-> "none", input |-> <<>>, output |-> None]

\* no window is open
NoApp == [window |-> "none"]

Init ==
    /\ master_names \in MasterLists
    /\ similarity_cache = EmptyCache
    /\ pc = "idle"
    /\ op = Idle
    /\ app = NoApp

\* a call of _normalize
Normalize ==
    /\ pc = "idle"
    /\ \E text \in TextPool :
          /\ pc' = "done"
          /\ op' = [name |-> "_normalize", input |-> text,
                    output |-> _normalize(master_names, text)]
          /\ UNCHANGED <<master_names, similarity_cache, app>>

\* a call of check
Check ==
    /\ pc = "idle"
    /\ \E text \in TextPool :
          \E r \in {check(master_names, similarity_cache, text)} :
              /\ pc' = "done"
              /\ op' = [name |-> "check", input |-> text,
                        output |-> r.result]
              /\ similarity_cache' = r.cache
              /\ UNCHANGED <<master_names, app>>

\* a call of find_all_in_text
FindAll ==
    /\ pc = "idle"
    /\ \E text \in TextPool :
          \E r \in {find_all_in_text(master_names, similarity_cache, text)} :
              /\ pc' = "done"
              /\ op' = [name |-> "find_all_in_text", input |-> text,
                        output |-> r.result]
              /\ similarity_cache' = r.cache
              /\ UNCHANGED <<master_names, app>>

Next == Normalize \/ Check \/ FindAll

Spec == Init /\ [][Next]_vars

-----------------------------------------------------------------------------
(* The review engine as a state machine *)

InitReview ==
    /\ master_names \in ReviewMasterLists
    /\ similarity_cache = EmptyCache
    /\ pc = "idle"
    /\ op = Idle
    /\ app = NoApp

\* a call of review_file on a file whose extraction raises or returns items
Review ==
    /\ pc = "idle"
    /\ \E extraction \in Extractions :
          \E r \in {review_file(master_names, similarity_cache, extraction)} :
              /\ pc' = "done"
              /\ op' = [name |-> "review_file", input |-> extraction,
                        output |-> r.result, check_calls |-> r.check_calls,
                        locator_calls |-> r.locator_calls,
                        discovered |-> r.discovered]
              /\ similarity_cache' = r.cache
              /\ UNCHANGED <<master_names, app>>

NextReview == Review

SpecReview == InitReview /\ [][NextReview]_vars

-----------------------------------------------------------------------------
(* The matcher built from a list that repeats a name *)

\* a master list followed by one of its names once more
DuplicatedLists ==
    UNION {{Append(l, l[i]) : i \in 1..Len(l)} : l \in ReviewMasterLists}

\* NameMatcher(master_names) takes the list as it is given
InitDuplicates ==
    /\ master_names \in DuplicatedLists
    /\ similarity_cache = EmptyCache
    /\ pc = "idle"
    /\ op = Idle
    /\ app = NoApp

SpecDuplicates == InitDuplicates /\ [][Next]_vars

-----------------------------------------------------------------------------
(* The matcher and the review engine on the same master lists *)

NextMatcherOrReview == Check \/ FindAll \/ Review

SpecMatcherOrReview == InitReview /\ [][NextMatcherOrReview]_vars

-----------------------------------------------------------------------------
(* One matcher serving call after call *)

\* the texts of the calls: two that only the similarity rule can classify,
\* a bare body with one more character, a bare body, a proper prefix of
\* bare bodies
ServedTexts ==
    {<<"3">> \o abcd12A \o <<"3", "3", "3", "3", "3">>,
     <<"3">> \o abcd12A \o <<"3", "3", "3", "3", "3", "3">>,
     abcd12A \o <<"3">>, abcd12A, abcd}

\* a call of check on a matcher that may have served calls before; cached
\* notes the texts in the cache when the call is made
ServeCheck ==
    \E text \in ServedTexts :
        \E r \in {check(master_names, similarity_cache, text)} :
            /\ pc' = "done"
            /\ op' = [name |-> "check", input |-> text, output |-> r.result,
                      cached |-> DOMAIN similarity_cache]
            /\ similarity_cache' = r.cache
            /\ UNCHANGED <<master_names, app>>

\* a call of find_all_in_text on a matcher that may have served calls before
ServeFindAll ==
    \E text \in ServedTexts :
        \E r \in {find_all_in_text(master_names, similarity_cache, text)} :
            /\ pc' = "done"
            /\ op' = [name |-> "find_all_in_text", input |-> text,
                      output |-> r.result,
                      cached |-> DOMAIN similarity_cache]
            /\ similarity_cache' = r.cache
            /\ UNCHANGED <<master_names, app>>

NextServing == ServeCheck \/ ServeFindAll

SpecServing == InitReview /\ [][NextServing]_vars

-----------------------------------------------------------------------------
(* The master list made from raw names *)

\* most raw names of one list
MaxRaw == 2

\* raw names: plain, with blanks around, with a byte-order mark in front,
\* with a byte-order mark and a blank in front, with a mark behind, only a
\* mark, empty, blank, None
RawNamePool ==
    {<<"a">>, <<"b">>, <<" ", "a", " ">>, <<"BOM", "a">>,
     <<"BOM", " ", "a">>, <<"a", "BOM">>, <<"BOM">>, <<>>, <<" ">>, RawNone}

RawLists == ListsOver(RawNamePool, MaxRaw)

InitSanitize ==
    /\ master_names = <<>>
    /\ similarity_cache = EmptyCache
    /\ pc = "idle"
    /\ op = Idle
    /\ app = NoApp

\* the master list is made from a raw list
Sanitize ==
    /\ pc = "idle"
    /\ \E raw_names \in RawLists :
          /\ pc' = "done"
          /\ op' = [name |-> "_sanitize_master_names", input |-> raw_names,
                    output |-> _sanitize_master_names(raw_names)]
          /\ master_names' = _sanitize_master_names(raw_names)
          /\ UNCHANGED <<similarity_cache, app>>

NextSanitize == Sanitize

SpecSanitize == InitSanitize /\ [][NextSanitize]_vars

-----------------------------------------------------------------------------
(* load_master_names and fetch_master_from_server *)

\* DEFAULT_MASTER_NAMES, the list built into the program
BuiltinNames == <<p_abcd12A>>

\* fewest names fetch_master_from_server accepts
MinServerNames == 10

ServerMarks == <<"0", "1", "2", "3", "4", "5", "6", "A", "B">>

\* the list of the server: as many names as the fetch accepts, the first
\* with the bare body of the built-in name under another prefix
ServerNames ==
    <<Paren(<<"q">>) \o abcd12A>> \o
    [k \in 1..(MinServerNames - 1) |->
        Paren(<<"r">>) \o wxyz \o <<ServerMarks[k]>>]

\* '서버 데이터가 너무 적습니다'
TooFewNames == <<"f", "e", "w">>

\* what requests.get and raise_for_status do: they raise (here with an
\* empty message), or the response's rows are read: the server's list, the
\* same with a repeated name and an empty row, a list that is too short
Responses ==
    {[raises |-> TRUE, error |-> <<>>, raw_names |-> <<>>],
     [raises |-> FALSE, error |-> <<>>, raw_names |-> ServerNames],
     [raises |-> FALSE, error |-> <<>>,
      raw_names |-> ServerNames \o <<q_abcd34B \o <<" ">>, RawNone>>],
     [raises |-> FALSE, error |-> <<>>,
      raw_names |-> <<q_abcd34B, p_abcd12A>>]}

fetch_master_from_server(response) ==
    IF response.raises
    THEN [raises |-> TRUE, error |-> response.error, names |-> <<>>]
    ELSE IF Len(_sanitize_master_names(response.raw_names)) < MinServerNames
    THEN [raises |-> TRUE, error |-> TooFewNames, names |-> <<>>]
    ELSE [raises |-> FALSE, error |-> <<>>,
          names |-> _sanitize_master_names(response.raw_names)]

\* load_master_names(MASTER_DB_URL): the names, the source ('서버' is
\* "server", '내장DB' is "builtin") and _LAST_MASTER_LOAD_ERROR
LoadedFrom(fetched) ==
    IF fetched.raises
    THEN [names |-> _sanitize_master_names(BuiltinNames),
          source |-> "builtin", last_error |-> fetched.error]
    ELSE [names |-> fetched.names, source |-> "server", last_error |-> <<>>]

load_master_names(response) == LoadedFrom(fetch_master_from_server(response))

-----------------------------------------------------------------------------
(* The window: App of src/name_checker_gui.py *)

\* most files of the list
MaxFiles == 2

\* most syncs the log shows
MaxSyncs == 1

\* the files a user can add: the name of each and what extracting it does
FilePool ==
    {[file |-> "silent", extraction |-> Raises(<<>>)],
     [file |-> "broken", extraction |-> Raises(<<"b", "a", "d">>)],
     [file |-> "official",
      extraction |-> Extracted(<<Item(Label(1), p_abcd12A)>>)]}

\* Python's truth of result.get("error"): None and '' are false
Truthy(error) == error # <<>> /\ error[1] # <<>>

IsMismatch(d) == d.status = "Mismatch"

\* ng_items
NgItems(details) == SelectSeq(details, IsMismatch)

\* the result of review_file with its "file"
WithFile(result, file) == [file |-> file] @@ result

NgLine(d) ==
    [kind |-> "ng", input |-> d.input, location |-> d.location,
     issue |-> d.issue, suggestion |-> d.suggestion]

\* the lines _run_review logs of the k-th file
FileLog(k, fr) ==
    IF Truthy(fr.error)
    THEN <<[kind |-> "error", idx |-> k, file |-> fr.file,
            text |-> fr.error[1]]>>
    ELSE IF NgItems(fr.details) = <<>>
    THEN <<[kind |-> "compliant", idx |-> k, file |-> fr.file,
            matched |-> fr.matched]>>
    ELSE <<[kind |-> "mismatch", idx |-> k, file |-> fr.file,
            count |-> Len(NgItems(fr.details))]>>
         \o [i \in 1..Len(NgItems(fr.details)) |->
                NgLine(NgItems(fr.details)[i])]

NgRow(fr, d) ==
    [file |-> fr.file, location |-> d.location, input |-> d.input,
     suggestion |-> d.suggestion, issue |-> d.issue]

\* the rows save_excel_report writes of one file
RowsOf(fr) ==
    IF Truthy(fr.error)
    THEN <<[file |-> fr.file, location |-> <<>>, input |-> "ExtractionError",
            suggestion |-> <<>>, issue |-> fr.error[1]]>>
    ELSE [i \in 1..Len(NgItems(fr.details)) |->
             NgRow(fr, NgItems(fr.details)[i])]

\* the rows of the first k results
RECURSIVE RowsUpTo(_, _)
RowsUpTo(all_results, k) ==
    IF k = 0 THEN <<>>
    ELSE RowsUpTo(all_results, k - 1) \o RowsOf(all_results[k])

save_excel_report(all_results) == RowsUpTo(all_results, Len(all_results))

\* list(dict.fromkeys(names))
RECURSIVE FromKeys(_, _)
FromKeys(names, k) ==
    IF k = 0 THEN <<>> ELSE AppendNew(FromKeys(names, k - 1), names[k])

NoWorker == [at |-> "none", files |-> <<>>, idx |-> 0, used |-> <<>>,
             grand_total |-> 0, grand_match |-> 0, grand_mismatch |-> 0]

\* the first line of the log
StartupLine(loaded) ==
    IF loaded.source = "server"
    THEN [kind |-> "loaded", source |-> "server", count |-> Len(loaded.names)]
    ELSE IF loaded.last_error # <<>>
    THEN [kind |-> "load_failed", text |-> loaded.last_error]
    ELSE [kind |-> "loaded", source |-> "builtin",
          count |-> Len(loaded.names)]

\* App.__init__: matcher and engine are written as the list of names the
\* matcher was built from; similarity_cache is the cache of the engine's
\* matcher, op is the report the last step wrote
Opened(loaded) ==
    [window |-> "open", db_source |-> loaded.source,
     matcher |-> loaded.names, engine |-> loaded.names,
     file_paths |-> <<>>, all_results |-> <<>>,
     is_reviewing |-> FALSE, is_syncing |-> FALSE,
     review_btn |-> "normal", sync_btn |-> "normal",
     sync_queue |-> <<>>, log |-> <<StartupLine(loaded)>>,
     review |-> NoWorker, sync |-> "none", unlock_pending |-> FALSE]

IsSyncAttempt(line) == line.kind = "sync_attempt"

\* the syncs the log shows
SyncsLogged(log) == Len(SelectSeq(log, IsSyncAttempt))

\* '서버 DB 동기화 실패'
DefaultSyncError == <<"s", "y", "n", "c">>

\* the event _run_sync_db puts on the queue
SyncEvent(loaded) ==
    IF loaded.source # "server"
    THEN [type |-> "failure",
          payload |-> IF loaded.last_error # <<>> THEN loaded.last_error
                      ELSE DefaultSyncError]
    ELSE [type |-> "success", payload |-> loaded.names]

\* the window's fields with the master list and the matcher's cache
Window(a, names, cache) == [app |-> a, master_names |-> names, cache |-> cache]

\* fault: the new list and matcher are installed and the engine is left
\* with the matcher it had
SyncedMasterKeepsEngine(w, names) ==
    Window([w.app EXCEPT
               !.matcher = FromKeys(names, Len(names)),
               !.db_source = "server",
               !.log = Append(@, [kind |-> "sync_done",
                                  count |-> Len(FromKeys(names, Len(names)))]),
               !.is_syncing = FALSE,
               !.sync_btn = "normal"],
           FromKeys(names, Len(names)), w.cache)

_apply_synced_master(w, names) ==
    Window([w.app EXCEPT
               !.matcher = FromKeys(names, Len(names)),
               !.engine = FromKeys(names, Len(names)),
               !.db_source = "server",
               !.log = Append(@, [kind |-> "sync_done",
                                  count |-> Len(FromKeys(names, Len(names)))]),
               !.is_syncing = FALSE,
               !.sync_btn = "normal"],
           FromKeys(names, Len(names)), EmptyCache)

\* fault: the failure is logged and the flag is left set
SyncFailureKeepsFlag(w, error_message) ==
    Window([w.app EXCEPT
               !.log = Append(@, [kind |-> "sync_failed",
                                  text |-> error_message,
                                  count |-> Len(w.master_names)])],
           w.master_names, w.cache)

_apply_sync_failure(w, error_message) ==
    Window([w.app EXCEPT
               !.log = Append(@, [kind |-> "sync_failed",
                                  text |-> error_message,
                                  count |-> Len(w.master_names)]),
               !.is_syncing = FALSE,
               !.sync_btn = "normal"],
           w.master_names, w.cache)

ApplyEvent(w, event) ==
    IF event.type = "success" THEN _apply_synced_master(w, event.payload)
    ELSE _apply_sync_failure(w, event.payload)

\* the loop of _poll_sync_queue over the first k events of the queue
RECURSIVE Polled(_, _, _)
Polled(w, events, k) ==
    IF k = 0 THEN w
    ELSE ApplyEvent(Polled(w, events, k - 1), events[k])

\* fault: a review or a sync starts whatever is running
MayStartAlways(a) == TRUE

\* the first test of _start_review and of _sync_db
MayStart(a) == ~(a.is_reviewing \/ a.is_syncing)

\* the window opens: the master list is loaded from the server or, when
\* that fails, from the built-in list
InitApp ==
    /\ \E response \in Responses :
          /\ master_names = load_master_names(response).names
          /\ app = Opened(load_master_names(response))
    /\ similarity_cache = EmptyCache
    /\ pc = "idle"
    /\ op = Idle

\* _add_files: a file not yet in the list is added
AddFiles ==
    /\ app.window = "open"
    /\ ~app.is_reviewing
    /\ Len(app.file_paths) < MaxFiles
    /\ \E f \in FilePool :
          /\ ~Contains(app.file_paths, f)
          /\ app' = [app EXCEPT !.file_paths = Append(@, f)]
    /\ op' = Idle
    /\ UNCHANGED <<master_names, similarity_cache, pc>>

\* _start_review, run by a press of the review button
StartReview ==
    /\ app.window = "open"
    /\ app.review_btn = "normal"
    /\ MayStart(app)
    /\ app.file_paths # <<>>
    /\ app' = [app EXCEPT
                  !.is_reviewing = TRUE,
                  !.review_btn = "disabled",
                  !.sync_btn = "disabled",
                  !.log = <<>>,
                  !.all_results = <<>>,
                  !.review = [NoWorker EXCEPT !.at = "begin",
                                              !.files = app.file_paths]]
    /\ op' = Idle
    /\ UNCHANGED <<master_names, similarity_cache, pc>>

\* _run_review up to its loop
RunReviewBegin ==
    /\ app.window = "open"
    /\ app.review.at = "begin"
    /\ app' = [app EXCEPT
                  !.log = Append(@, [kind |-> "batch_start",
                                     total |-> Len(app.review.files)]),
                  !.review.at = "loop"]
    /\ op' = Idle
    /\ UNCHANGED <<master_names, similarity_cache, pc>>

\* the worker after one more file: fr is the file's result
FileReviewed(a, fr) ==
    [a EXCEPT
        !.all_results = Append(@, fr),
        !.log = @ \o FileLog(a.review.idx + 1, fr),
        !.review.idx = @ + 1,
        !.review.used = Append(@, a.engine),
        !.review.grand_total = @ + fr.total,
        !.review.grand_match = @ + fr.matched,
        !.review.grand_mismatch = @ + fr.mismatched]

\* one pass of the loop of _run_review
RunReviewFile ==
    /\ app.window = "open"
    /\ app.review.at = "loop"
    /\ app.review.idx < Len(app.review.files)
    /\ \E r \in {review_file(app.engine, similarity_cache,
                             app.review.files[app.review.idx + 1].extraction)} :
          /\ app' = FileReviewed(app,
                        WithFile(r.result,
                                 app.review.files[app.review.idx + 1].file))
          /\ similarity_cache' = r.cache
    /\ op' = Idle
    /\ UNCHANGED <<master_names, pc>>

\* _run_review after its loop
RunReviewSummary ==
    /\ app.window = "open"
    /\ app.review.at = "loop"
    /\ app.review.idx = Len(app.review.files)
    /\ app' = [app EXCEPT
                  !.log = Append(@, [kind |-> "batch_done",
                                     total |-> app.review.grand_total,
                                     matched |-> app.review.grand_match,
                                     mismatched |-> app.review.grand_mismatch]),
                  !.review.at = "finally"]
    /\ op' = Idle
    /\ UNCHANGED <<master_names, similarity_cache, pc>>

\* an exception that is not an extraction's is raised inside the try of
\* _run_review
RunReviewRaise ==
    /\ app.window = "open"
    /\ app.review.at \in {"begin", "loop"}
    /\ app' = [app EXCEPT !.log = Append(@, [kind |-> "unexpected"]),
                          !.review.at = "finally"]
    /\ op' = Idle
    /\ UNCHANGED <<master_names, similarity_cache, pc>>

\* the finally of _run_review
RunReviewFinally ==
    /\ app.window = "open"
    /\ app.review.at = "finally"
    /\ app' = [app EXCEPT !.is_reviewing = FALSE,
                          !.unlock_pending = TRUE,
                          !.review.at = "none"]
    /\ op' = Idle
    /\ UNCHANGED <<master_names, similarity_cache, pc>>

\* _unlock_ui, run by the event loop
UnlockUi ==
    /\ app.window = "open"
    /\ app.unlock_pending
    /\ app' = [app EXCEPT !.review_btn = "normal", !.sync_btn = "normal",
                          !.unlock_pending = FALSE]
    /\ op' = Idle
    /\ UNCHANGED <<master_names, similarity_cache, pc>>

\* _sync_db, run by a press of the sync button
SyncDb ==
    /\ app.window = "open"
    /\ app.sync_btn = "normal"
    /\ MayStart(app)
    /\ SyncsLogged(app.log) < MaxSyncs
    /\ app' = [app EXCEPT !.is_syncing = TRUE,
                          !.sync_btn = "disabled",
                          !.log = Append(@, [kind |-> "sync_attempt"]),
                          !.sync = "running"]
    /\ op' = Idle
    /\ UNCHANGED <<master_names, similarity_cache, pc>>

\* _run_sync_db
RunSyncDb ==
    /\ app.window = "open"
    /\ app.sync = "running"
    /\ \E response \in Responses :
          app' = [app EXCEPT
                     !.sync_queue =
                         Append(@, SyncEvent(load_master_names(response))),
                     !.sync = "none"]
    /\ op' = Idle
    /\ UNCHANGED <<master_names, similarity_cache, pc>>

\* _poll_sync_queue when the queue holds an event
PollSyncQueue ==
    /\ app.window = "open"
    /\ app.sync_queue # <<>>
    /\ \E w \in {Polled(Window([app EXCEPT !.sync_queue = <<>>],
                               master_names, similarity_cache),
                        app.sync_queue, Len(app.sync_queue))} :
          /\ app' = w.app
          /\ master_names' = w.master_names
          /\ similarity_cache' = w.cache
    /\ op' = Idle
    /\ UNCHANGED pc

\* _save_report with a path chosen
SaveReport ==
    /\ app.window = "open"
    /\ ~app.is_reviewing
    /\ app.all_results # <<>>
    /\ op' = [name |-> "save_excel_report", input |-> app.all_results,
              output |-> save_excel_report(app.all_results)]
    /\ UNCHANGED <<master_names, similarity_cache, pc, app>>

\* the handlers a user runs that start a worker, write the report or give
\* a batch its files
Handlers == AddFiles \/ StartReview \/ SyncDb \/ SaveReport

\* the thread of _run_review
ReviewWorker ==
    RunReviewBegin \/ RunReviewFile \/ RunReviewSummary \/ RunReviewFinally

\* the callbacks the event loop runs by itself
EventLoop == UnlockUi \/ PollSyncQueue

NextApp ==
    \/ Handlers
    \/ ReviewWorker
    \/ RunReviewRaise
    \/ RunSyncDb
    \/ EventLoop

SpecApp == InitApp /\ [][NextApp]_vars

\* the review worker is at a pass of its loop
AtReviewFile ==
    app.review.at = "loop" /\ app.review.idx < Len(app.review.files)

\* the threads run on and the event loop keeps running its callbacks: weak
\* fairness of every step of a worker and of every callback. For the steps
\* that compute a review, a load or a new matcher, ENABLED is written as
\* the step's guard: each of them has a successor whenever its guard holds
\* (review_file returns a result of every file, load_master_names a list
\* for every response) and changes the state (idx, sync, sync_queue)
FairSpecApp ==
    /\ SpecApp
    /\ WF_vars(RunReviewBegin \/ RunReviewSummary \/ RunReviewFinally)
    /\ WF_vars(UnlockUi)
    /\ ([]<>~AtReviewFile \/ []<><<RunReviewFile>>_vars)
    /\ ([]<>(app.sync # "running") \/ []<><<RunSyncDb>>_vars)
    /\ ([]<>(app.sync_queue = <<>>) \/ []<><<PollSyncQueue>>_vars)

-----------------------------------------------------------------------------
(* Properties of NameMatcher: vocabulary of the statements *)

\* text is one of the canonical names of the master list
IsCanonical(text) == \E i \in 1..Len(master_names) : master_names[i] = text

\* text is a bare body: a canonical name with its leading group removed
IsBareBody(text) ==
    \E i \in 1..Len(master_names) : _remove_prefix(master_names[i]) = text

\* the canonical names whose bare body is bare, in master-list order
CanonicalsOf(bare) ==
    SelectSeq(master_names, LAMBDA n : _remove_prefix(n) = bare)

\* s is at most 2 characters long after trimming, or a member of the
\* exclusion vocabulary, or only digits once spaces, dashes and dots are
\* removed
Rejected(s) ==
    \/ Len(Strip(s)) <= 2
    \/ s \in EXCLUDE_WORDS
    \/ LET rest == SelectSeq(s, LAMBDA c : c \notin {" ", "-", "."})
       IN  rest # <<>> /\ \A i \in 1..Len(rest) : rest[i] \in Digits

IsMatchOf(r, name) ==
    r = [input |-> name, status |-> "Match", suggestion |-> name,
         issue |-> EmptyIssue]

HasReason(r, kind) ==
    \E i \in 1..Len(r.issue.reasons) : r.issue.reasons[i].kind = kind

-----------------------------------------------------------------------------
(* C1 *)

\* C1 as stated: for every canonical name N of the master list, check(N)
\* has status Match, suggestion N and an empty issue.
C1_Original ==
    (op.name = "check" /\ IsCanonical(op.input)) =>
        IsMatchOf(op.output, op.input)

\* C1 amended: for every canonical name N of the master list that the
\* exclusion filter does not reject, check(N) has status Match, suggestion
\* N and an empty issue.
C1_CanonicalNameMatches ==
    (op.name = "check" /\ IsCanonical(op.input) /\ ~Rejected(op.input)) =>
        IsMatchOf(op.output, op.input)

\* check was called on a canonical name with a prefix, second in its list
C1_Witness ==
    /\ op.name = "check"
    /\ Len(master_names) = 2
    /\ op.input = master_names[2]
    /\ _has_prefix(op.input)
    /\ ~Rejected(op.input)
    /\ op.output.status = "Match"

-----------------------------------------------------------------------------
(* C2 *)

\* C2: _normalize is idempotent: normalizing the result of _normalize
\* again returns it unchanged.
C2_Idempotent ==
    op.name = "_normalize" =>
        _normalize(master_names, op.output) = op.output

-----------------------------------------------------------------------------
(* Properties of ReviewEngine: vocabulary of the statements *)

\* review_file returned the result of a document whose extraction succeeded
Reviewed == op.name = "review_file" /\ ~op.input.raises

ProperPrefix(s, t) == Len(s) < Len(t) /\ SubSeq(t, 1, Len(s)) = s

\* the elements of seq without repetition, in order of first occurrence
RECURSIVE DistinctInOrder(_)
DistinctInOrder(seq) ==
    IF Len(seq) = 0 THEN <<>>
    ELSE LET init == DistinctInOrder(SubSeq(seq, 1, Len(seq) - 1))
             last == seq[Len(seq)]
         IN  IF \E i \in 1..Len(init) : init[i] = last THEN init
             ELSE Append(init, last)

\* the labels of the locations where candidate was discovered, in order
DiscoveredAt(candidate) ==
    LET hits == SelectSeq(op.discovered, LAMBDA e : e.candidate = candidate)
    IN  [i \in 1..Len(hits) |-> hits[i].location]

EntriesOf(candidate) ==
    {i \in 1..Len(op.output.details) : op.output.details[i].input = candidate}

-----------------------------------------------------------------------------
(* C3 *)

\* C3: when the only text of the document is a proper prefix of the bare
\* bodies of exactly two canonical names and equals no bare body, the file
\* result holds one Mismatch entry whose suggestion lists both names and
\* whose issue flags an ambiguity between 2 candidates.
C3_AmbiguousPrefix ==
    LET text == op.input.text_items[1].text
        owners == SelectSeq(master_names,
                            LAMBDA n : ProperPrefix(text, _remove_prefix(n)))
        details == op.output.details
    IN  (/\ Reviewed
         /\ Len(op.input.text_items) = 1
         /\ Len(owners) = 2
         /\ ~IsBareBody(text))
        => /\ Len(details) = 1
           /\ details[1].status = "Mismatch"
           /\ details[1].suggestion = Join(owners, <<" ", "/", " ">>)
           /\ details[1].issue.listed = owners

-----------------------------------------------------------------------------
(* C4 *)

\* C4: reviewing a document whose only fragment is exactly a canonical
\* name N yields one Match entry, mismatched = 0 and overall Compliant; no
\* Mismatch entry comes from text inside N.
C4_ExactNameCompliant ==
    (/\ Reviewed
     /\ Len(op.input.text_items) = 1
     /\ IsCanonical(op.input.text_items[1].text))
    => /\ op.output.total = 1
       /\ op.output.matched = 1
       /\ op.output.mismatched = 0
       /\ op.output.overall = "Compliant"
       /\ op.output.details[1].status = "Match"

-----------------------------------------------------------------------------
(* C5 *)

\* C5: in one review a mismatching candidate discovered at k >= 1
\* locations has exactly one entry in details, whose location is the
\* comma-joined list of the distinct labels in order of first occurrence;
\* no two entries of details have the same input.
C5_OneEntryMergedLocations ==
    Reviewed =>
        /\ \A i, j \in 1..Len(op.output.details) :
              op.output.details[i].input = op.output.details[j].input => i = j
        /\ \A k \in 1..Len(op.discovered) :
              LET candidate == op.discovered[k].candidate
              IN  check(master_names, EmptyCache, candidate).result.status
                      = "Mismatch"
                  => /\ Cardinality(EntriesOf(candidate)) = 1
                     /\ \A i \in EntriesOf(candidate) :
                           /\ op.output.details[i].status = "Mismatch"
                           /\ op.output.details[i].location
                                = Join(DistinctInOrder(DiscoveredAt(candidate)),
                                       <<",", " ">>)

\* a mismatching candidate was discovered three times, at two locations
C5_Witness ==
    /\ Reviewed
    /\ \E i \in 1..Len(op.output.details) :
          /\ op.output.details[i].status = "Mismatch"
          /\ Len(DiscoveredAt(op.output.details[i].input)) = 3
          /\ op.output.details[i].location
               = <<"A", "1", ",", " ", "A", "2">>

-----------------------------------------------------------------------------
(* C6 *)

\* s begins with a parenthetical group, empty or not
BeginsWithGroup(s) ==
    /\ Len(s) > 0
    /\ s[1] = "("
    /\ \E k \in 2..Len(s) : s[k] = ")"

\* check(bare body) is Mismatch with suggestion C and reports the prefix
\* as missing
C6_Reported(C) ==
    /\ op.output.status = "Mismatch"
    /\ op.output.suggestion = C
    /\ HasReason(op.output, "PrefixMissing")

\* C6 as stated: if a bare body maps to exactly one canonical name C and C
\* has a prefix, check(bare body) is Mismatch with suggestion C and an
\* issue that reports the prefix as missing.
C6_Original ==
    (/\ op.name = "check"
     /\ Len(CanonicalsOf(op.input)) = 1
     /\ _has_prefix(CanonicalsOf(op.input)[1]))
    => C6_Reported(CanonicalsOf(op.input)[1])

\* C6 amended: the same, for a bare body that the exclusion filter does
\* not reject and that does not itself begin with a parenthetical group.
C6_BareBodyMissingPrefix ==
    (/\ op.name = "check"
     /\ Len(CanonicalsOf(op.input)) = 1
     /\ _has_prefix(CanonicalsOf(op.input)[1])
     /\ ~Rejected(op.input)
     /\ ~BeginsWithGroup(op.input))
    => C6_Reported(CanonicalsOf(op.input)[1])

\* check was called on the bare body of a single prefixed canonical name
C6_Witness ==
    /\ op.name = "check"
    /\ Len(CanonicalsOf(op.input)) = 1
    /\ _has_prefix(CanonicalsOf(op.input)[1])
    /\ ~Rejected(op.input)
    /\ op.output.status = "Mismatch"
    /\ op.output.issue.reasons = <<PlainReason("PrefixMissing")>>

-----------------------------------------------------------------------------
(* C7 *)

\* the trimmed input of the call, and its normalized form
Trimmed == Strip(op.input)

Normalized == _normalize(master_names, Trimmed)

\* the input has no leading prefix and normalizes to a bare body of more
\* than one canonical name
C7_Case ==
    /\ op.name = "check"
    /\ ~_has_prefix(Trimmed)
    /\ Len(CanonicalsOf(Normalized)) > 1

\* Mismatch, all the canonical names of the bare body suggested in
\* master-list order, the issue naming the missing prefix and the list
C7_Reported ==
    /\ op.output.status = "Mismatch"
    /\ op.output.suggestion = Join(CanonicalsOf(Normalized), <<" ", "/", " ">>)
    /\ op.output.issue = Issue(<<PlainReason("PrefixMissing")>>, "candidates",
                               CanonicalsOf(Normalized))

\* C7 as stated: an input without leading prefix whose normalized form is a
\* bare body of N > 1 canonical names gets Mismatch, a suggestion listing
\* the N names in master-list order and an issue naming the missing prefix
\* with the candidate list.
C7_Original == C7_Case => C7_Reported

\* C7 amended: the same, for an input that the exclusion filter does not
\* reject and that is not itself a canonical name.
C7_AmbiguousBareBody ==
    (C7_Case /\ ~Rejected(Trimmed) /\ ~IsCanonical(Trimmed)) => C7_Reported

\* check was called on a bare body of two names followed by a noise suffix
C7_Witness ==
    /\ C7_Case
    /\ ~Rejected(Trimmed)
    /\ ~IsCanonical(Trimmed)
    /\ Trimmed # Normalized
    /\ Len(op.output.issue.listed) = 2

-----------------------------------------------------------------------------
(* C8 *)

BareOf(i) == _remove_prefix(master_names[i])

\* the input normalizes to B1, no bare body, and B1 is a proper prefix of
\* the bare body of name i, which is at least 2 characters longer
C8_Case(i) ==
    /\ op.name = "check"
    /\ ProperPrefix(Normalized, BareOf(i))
    /\ Len(BareOf(i)) - Len(Normalized) >= 2
    /\ ~IsBareBody(Normalized)

C8_Reported(i) ==
    /\ op.output.status = "Mismatch"
    /\ op.output.suggestion = master_names[i]
    /\ op.output.issue = Issue(<<PlainReason("Incomplete")>>, "official",
                               <<master_names[i]>>)

\* name j takes part in the containment rule for B1: its bare body has at
\* least 4 characters and starts with B1, or B1 starts with it
C8_Related(j) ==
    /\ Len(BareOf(j)) >= 4
    /\ \/ ProperPrefix(Normalized, BareOf(j))
       \/ ProperPrefix(BareOf(j), Normalized)

\* C8 as stated: if B1 is a proper prefix of bare body B2, at least 2
\* characters shorter, the input normalizes to B1 and B1 is no bare body,
\* check is Mismatch 'incomplete name' with the canonical name of B2 as
\* suggestion, for every length of B1.
C8_Original ==
    \A i \in 1..Len(master_names) : C8_Case(i) => C8_Reported(i)

\* C8 amended: the same when B1 has at least 4 characters, the exclusion
\* filter does not reject the input, and no other canonical name has a
\* bare body of at least 4 characters that starts with B1 or that B1
\* starts with.
C8_IncompleteName ==
    \A i \in 1..Len(master_names) :
        (/\ C8_Case(i)
         /\ Len(Normalized) >= 4
         /\ ~Rejected(Trimmed)
         /\ \A j \in 1..Len(master_names) : C8_Related(j) => j = i)
        => C8_Reported(i)

\* check was called on a prefixed text that normalizes to the first four
\* characters of the one bare body that starts with them
C8_Witness ==
    /\ op.name = "check"
    /\ _has_prefix(Trimmed)
    /\ Len(Normalized) = 4
    /\ \E i \in 1..Len(master_names) :
          /\ C8_Case(i)
          /\ \A j \in 1..Len(master_names) : C8_Related(j) => j = i
          /\ C8_Reported(i)

-----------------------------------------------------------------------------
(* C9 *)

\* C9: for every string that is at most 2 characters long after trimming,
\* or in the exclusion vocabulary, or all digits once spaces, dashes and
\* dots are removed, check returns no result and find_all_in_text returns
\* no candidate, whatever the master list contains.
C9_RejectedYieldsNothing ==
    /\ (op.name = "check" /\ Rejected(op.input)) => op.output = None
    /\ (op.name = "find_all_in_text" /\ Rejected(op.input))
          => op.output = <<>>

\* check was called on a rejected text of 4 characters that starts a bare
\* body of the master list
C9_Witness ==
    /\ op.name = "check"
    /\ Rejected(op.input)
    /\ Len(op.input) = 4
    /\ \E i \in 1..Len(master_names) : ProperPrefix(op.input, BareOf(i))
    /\ op.output = None

-----------------------------------------------------------------------------
(* C10 *)

\* no rule before the similarity rule fires for the input of check
C10_OnlySimilarity ==
    /\ op.name = "check"
    /\ ~Rejected(Trimmed)
    /\ ~IsCanonical(Trimmed)
    /\ ~IsBareBody(Normalized)
    /\ CheckContaining(master_names, Trimmed, Normalized) = None

\* name i has a bare body with the best similarity ratio to the input
C10_IsBest(i) ==
    \A j \in 1..Len(master_names) :
        FracGE(Ratio(Normalized, BareOf(i)), Ratio(Normalized, BareOf(j)))

\* the best ratio is exactly 7/10
C10_BestAtThreshold ==
    \E i \in 1..Len(master_names) :
        /\ C10_IsBest(i)
        /\ 10 * Ratio(Normalized, BareOf(i))[1]
             = 7 * Ratio(Normalized, BareOf(i))[2]

\* the best ratio is below 7/10
C10_BestBelowThreshold ==
    \A i \in 1..Len(master_names) :
        10 * Ratio(Normalized, BareOf(i))[1]
            < 7 * Ratio(Normalized, BareOf(i))[2]

\* the first name of the master list whose bare body has the best ratio
C10_FirstBest ==
    master_names[Min({i \in 1..Len(master_names) : C10_IsBest(i)})]

\* C10: when no earlier rule fires, an input whose best bare-body ratio is
\* exactly 0.70 is Mismatch 'typo suspected' with the first-listed
\* canonical name of the best bare body as suggestion, and an input whose
\* best ratio is below 0.70 gets no result.
C10_ThresholdBoundary ==
    /\ (C10_OnlySimilarity /\ C10_BestAtThreshold)
          => /\ op.output.status = "Mismatch"
             /\ HasReason(op.output, "TypoSuspected")
             /\ op.output.suggestion = C10_FirstBest
    /\ (C10_OnlySimilarity /\ C10_BestBelowThreshold) => op.output = None

\* check was called on a text whose best ratio is exactly 7/10, reached by
\* a bare body of two canonical names
C10_Witness ==
    /\ C10_OnlySimilarity
    /\ C10_BestAtThreshold
    /\ Len(CanonicalsOf(_remove_prefix(C10_FirstBest))) = 2
    /\ op.output.status = "Mismatch"
    /\ op.output.suggestion = C10_FirstBest

-----------------------------------------------------------------------------
(* C11 *)

\* the entries of the returned details with the given status
WithStatus(status) ==
    {i \in 1..Len(op.output.details) : op.output.details[i].status = status}

\* C11: every file result that review_file returns without an extraction
\* failure has total = len(details) = matched + mismatched, matched and
\* mismatched being the numbers of Match and Mismatch entries, and its
\* overall status is NoNamesFound exactly when total = 0, Compliant exactly
\* when total > 0 and mismatched = 0, and NeedsReview otherwise.
C11_AggregatesConsistent ==
    Reviewed =>
        /\ op.output.total = Len(op.output.details)
        /\ op.output.total = op.output.matched + op.output.mismatched
        /\ op.output.matched = Cardinality(WithStatus("Match"))
        /\ op.output.mismatched = Cardinality(WithStatus("Mismatch"))
        /\ op.output.overall = "NoNamesFound" <=> op.output.total = 0
        /\ op.output.overall = "Compliant" <=>
              op.output.total > 0 /\ op.output.mismatched = 0
        /\ op.output.overall = "NeedsReview" <=>
              op.output.total > 0 /\ op.output.mismatched > 0

\* a review whose details hold a Match and a Mismatch entry
C11_Witness ==
    /\ Reviewed
    /\ WithStatus("Match") # {}
    /\ WithStatus("Mismatch") # {}
    /\ op.output.overall = "NeedsReview"

-----------------------------------------------------------------------------
(* C12 *)

\* review_file was called on a file whose extraction raises
ReviewedFailing == op.name = "review_file" /\ op.input.raises

\* C12: when text extraction raises for a file, review_file returns a
\* result with overall status ExtractionError, total = matched =
\* mismatched = 0, an empty details list and error set to the exception's
\* text, and neither check nor find_all_in_text is invoked for that file.
C12_ExtractionError ==
    ReviewedFailing =>
        /\ op.output.overall = "ExtractionError"
        /\ op.output.total = 0
        /\ op.output.matched = 0
        /\ op.output.mismatched = 0
        /\ op.output.details = <<>>
        /\ op.output.error = <<op.input.error>>
        /\ op.check_calls = <<>>
        /\ op.locator_calls = <<>>
        /\ similarity_cache = EmptyCache

\* a review of a file whose extraction raises with a non-empty message
C12_Witness ==
    /\ ReviewedFailing
    /\ op.input.error # <<>>
    /\ op.output.error = <<op.input.error>>

-----------------------------------------------------------------------------
(* C13 *)

\* every name of the master list is non-empty
NamesNonEmpty == \A i \in 1..Len(master_names) : master_names[i] # <<>>

\* check returned a Mismatch result
C13_Mismatch ==
    /\ op.name = "check"
    /\ op.output # None
    /\ op.output.status = "Mismatch"

\* C13: for every master list of non-empty names and every input text, a
\* result of check with status Mismatch has a non-empty suggestion, on
\* every branch (unique bare body, ambiguous bare body, containment,
\* similarity).
C13_MismatchHasSuggestion ==
    (NamesNonEmpty /\ C13_Mismatch) => op.output.suggestion # <<>>

\* a Mismatch that only the similarity rule produces, with its suggestion
C13_Witness ==
    /\ NamesNonEmpty
    /\ C10_OnlySimilarity
    /\ C13_Mismatch
    /\ IsCanonical(op.output.suggestion)

-----------------------------------------------------------------------------
(* C14 *)

\* the master list holds a name more than once
HasRepeat == ~NoDuplicate(master_names)

\* C14: a NameMatcher built from a list L with one of its names repeated
\* returns the same check(t) and find_all_in_text(t) as a NameMatcher built
\* from L itself.
C14_DuplicatesIdempotent ==
    /\ (HasRepeat /\ op.name = "check") =>
          op.output = check(DistinctInOrder(master_names), EmptyCache,
                            op.input).result
    /\ (HasRepeat /\ op.name = "find_all_in_text") =>
          op.output = find_all_in_text(DistinctInOrder(master_names),
                                       EmptyCache, op.input).result

-----------------------------------------------------------------------------
(* C15 *)

\* the file result with no name found
C15_NothingFound ==
    [total |-> 0, matched |-> 0, mismatched |-> 0,
     overall |-> "NoNamesFound", details |-> <<>>, error |-> <<>>]

\* C15: on a NameMatcher built from an empty name list, check returns no
\* result for every text, find_all_in_text returns no candidate for every
\* text, and the review of any extracted pairs yields NoNamesFound with
\* zero counts.
C15_EmptyMasterList ==
    master_names = <<>> =>
        /\ op.name = "check" => op.output = None
        /\ op.name = "find_all_in_text" => op.output = <<>>
        /\ Reviewed =>
              /\ op.output = C15_NothingFound
              /\ op.check_calls = <<>>

\* a review on the empty master list that ran the fallback search on a
\* fragment
C15_Witness ==
    /\ master_names = <<>>
    /\ Reviewed
    /\ op.locator_calls # <<>>
    /\ op.output.overall = "NoNamesFound"

-----------------------------------------------------------------------------
(* C16 *)

\* the number of calls of check on candidate during the review
C16_Calls(candidate) ==
    Cardinality({i \in 1..Len(op.check_calls) :
                    op.check_calls[i] = candidate})

\* C16: during one review, check is invoked exactly once for each distinct
\* candidate string, however many times that string is discovered and
\* whatever check returned for it the first time.
C16_CheckedOncePerCandidate ==
    Reviewed =>
        \A i \in 1..Len(op.discovered) :
            C16_Calls(op.discovered[i].candidate) = 1

-----------------------------------------------------------------------------
(* C17 *)

\* find_all_in_text was called on a text that it scans with its patterns
C17_Scanned ==
    /\ op.name = "find_all_in_text"
    /\ Len(Trimmed) >= MinTextLen
    /\ Len(Trimmed) >= min_bare_length(master_names)
    /\ ~Rejected(Trimmed)
    /\ ~IsCanonical(Trimmed)
    /\ ~IsBareBody(Trimmed)
    /\ ~IsBareBody(Normalized)

\* the hits of the bare-body pattern in the text
C17_BareHits == FindIter(_bare_pattern(master_names), Trimmed)

\* no parenthetical stands anywhere before the hit m
C17_NoGroupBefore(m) == \A k \in 1..m.start : Trimmed[k] # ")"

\* no canonical name of the bare body is itself found in the text
C17_NoCanonicalHit(bare) ==
    \A h \in 1..Len(FindIter(_official_pattern(master_names), Trimmed)) :
        _remove_prefix(
            FindIter(_official_pattern(master_names), Trimmed)[h].group)
          # bare

\* C17: a bare-body occurrence with no parenthetical directly before it is
\* reported by find_all_in_text as the bare body alone, also when a
\* prefixed occurrence of the same bare body stands elsewhere in the text.
C17_BareHitReportedAlone ==
    C17_Scanned =>
        \A h \in 1..Len(C17_BareHits) :
            (/\ C17_NoGroupBefore(C17_BareHits[h])
             /\ C17_NoCanonicalHit(C17_BareHits[h].group))
                => \E k \in 1..Len(op.output) :
                       op.output[k] = C17_BareHits[h].group

-----------------------------------------------------------------------------
(* C18 *)

\* the joined text and offset table of the reviewed document
BuiltOfInput == _build_full_text_with_offsets(op.input.text_items)

\* the hits of the two patterns in the joined text
OfficialHitsIn(built) ==
    FindIter(_official_pattern(master_names), built.full_text)

BareHitsIn(built) == FindIter(_bare_pattern(master_names), built.full_text)

\* the number of the hits that start inside the fragment of entry e
HitsInside(hits, e) ==
    Cardinality({h \in 1..Len(hits) :
                    e.start <= hits[h].start /\ hits[h].start < e.end})

\* the number of canonical-name and bare-body hits that start inside the
\* fragment of entry e
HitCount(officials, bares, e) ==
    HitsInside(officials, e) + HitsInside(bares, e)

\* the number of candidates discovered at the fragment of entry e
DiscoveredIn(e) ==
    Cardinality({i \in 1..Len(op.discovered) :
                    op.discovered[i].location = e.location})

\* the statement of C18 for the offset table and the hits of a document
C18_Holds(offsets, officials, bares) ==
    /\ op.locator_calls =
          SelectSeq(offsets,
                    LAMBDA e : /\ HitCount(officials, bares, e) = 0
                               /\ Len(e.text) <= 80)
    /\ \A k \in 1..Len(offsets) :
          /\ HitCount(officials, bares, offsets[k]) > 0 =>
                DiscoveredIn(offsets[k])
                  = HitCount(officials, bares, offsets[k])
          /\ (/\ HitCount(officials, bares, offsets[k]) = 0
              /\ Len(offsets[k].text) > 80) =>
                DiscoveredIn(offsets[k]) = 0

\* C18: in review, find_all_in_text is run on a fragment if and only if no
\* canonical-name or bare-body hit starts inside it and it is at most 80
\* characters long, once per such fragment in fragment order; a fragment
\* with a hit contributes its hits only, and a longer fragment without a
\* hit contributes nothing.
C18_FallbackOnlyUncoveredShort ==
    Reviewed =>
        \A built \in {BuiltOfInput} :
            C18_Holds(built.offsets, OfficialHitsIn(built), BareHitsIn(built))

\* a review of a fragment of 81 characters, left alone, and of a fragment
\* of 80 characters, searched by the fallback and reported
C18_Witness ==
    /\ Reviewed
    /\ Len(op.input.text_items) = 2
    /\ Len(op.input.text_items[1].text) = 81
    /\ Len(op.input.text_items[2].text) = 80
    /\ Len(op.locator_calls) = 1
    /\ op.locator_calls[1].text = op.input.text_items[2].text
    /\ Len(op.output.details) = 1

-----------------------------------------------------------------------------
(* C19 *)

\* the regex hits of the joined text as <<offset, kind, matched text>>,
\* kind 0 for a canonical-name hit and 1 for a bare-body hit
HitKeys(officials, bares) ==
    {<<officials[h].start, 0, officials[h].group>> :
        h \in 1..Len(officials)}
    \cup {<<bares[h].start, 1, bares[h].group>> : h \in 1..Len(bares)}

\* the place of hit k among keys in ascending order of offset, a
\* canonical-name hit before a bare-body hit at the same offset
Rank(keys, k) ==
    1 + Cardinality({j \in keys :
                        j[1] < k[1] \/ (j[1] = k[1] /\ j[2] < k[2])})

\* the index of the fragment with the given label
FragmentOf(offsets, location) ==
    CHOOSE f \in 1..Len(offsets) : offsets[f].location = location

\* the index of the fragment that holds the offset
FragmentAt(offsets, offset) ==
    CHOOSE f \in 1..Len(offsets) :
        offsets[f].start <= offset /\ offset < offsets[f].end

\* the index in discovered of the first discovery of candidate
FirstDiscovery(candidate) ==
    Min({i \in 1..Len(op.discovered) :
            op.discovered[i].candidate = candidate})

\* the discovery at place is the one of hit k
C19_HitInPlace(offsets, k, place) ==
    /\ place <= Len(op.discovered)
    /\ op.discovered[place].location
         = offsets[FragmentAt(offsets, k[1])].location
    /\ k[2] = 0 => op.discovered[place].candidate = k[3]
    /\ k[2] = 1 => EndsWith(op.discovered[place].candidate, k[3])

\* the discoveries after the first n are made by the fallback search,
\* fragment by fragment
C19_FallbackInOrder(offsets, n) ==
    \A i \in (n + 1)..Len(op.discovered) :
        /\ \E c \in 1..Len(op.locator_calls) :
              op.locator_calls[c].location = op.discovered[i].location
        /\ \A j \in (i + 1)..Len(op.discovered) :
              FragmentOf(offsets, op.discovered[i].location)
                <= FragmentOf(offsets, op.discovered[j].location)

\* the statement of C19 for the offset table and the hits of a document
C19_Holds(offsets, keys) ==
    /\ \A k \in keys : C19_HitInPlace(offsets, k, Rank(keys, k))
    /\ C19_FallbackInOrder(offsets, Cardinality(keys))
    /\ \A i, j \in 1..Len(op.output.details) :
          i < j => FirstDiscovery(op.output.details[i].input)
                     < FirstDiscovery(op.output.details[j].input)

\* C19: the details list of a file result is in discovery order: the
\* discoveries by a regex hit come in ascending order of the hit's offset
\* in the joined text, a canonical-name hit before a bare-body hit at the
\* same offset, the discoveries of the fallback search come after them in
\* fragment order, and the entries of details stand in the order of the
\* first discovery of their candidates.
C19_DiscoveryOrder ==
    Reviewed =>
        \A built \in {BuiltOfInput} :
            \A keys \in {HitKeys(OfficialHitsIn(built), BareHitsIn(built))} :
                C19_Holds(built.offsets, keys)

\* a review with a bare-body hit in front of a canonical-name hit, both
\* reported, the bare body first
C19_Witness ==
    /\ Reviewed
    /\ Len(op.output.details) = 2
    /\ \E k, l \in HitKeys(OfficialHitsIn(BuiltOfInput),
                            BareHitsIn(BuiltOfInput)) :
          /\ k[2] = 1
          /\ l[2] = 0
          /\ k[1] < l[1]
          /\ op.output.details[1].input = k[3]
          /\ op.output.details[2].input = l[3]

-----------------------------------------------------------------------------
(* C20 *)

\* the items of the reviewed document that are not empty after trimming
C20_Kept ==
    SelectSeq(op.input.text_items, LAMBDA it : Strip(it.text) # <<>>)

\* the 0-based indices of the entries whose range holds the position
C20_Holding(offsets, position) ==
    {f - 1 : f \in {g \in 1..Len(offsets) :
                       /\ offsets[g].start <= position
                       /\ position < offsets[g].end}}

\* what _find_offset_index returns for the position
C20_IndexOf(built, position) ==
    _find_offset_index(built.starts, built.offsets, position)

\* the entries are the kept items in input order, each with its label,
\* its trimmed text and its range of the joined text
C20_Entries(built, kept) ==
    /\ Len(built.offsets) = Len(kept)
    /\ Len(built.starts) = Len(kept)
    /\ \A k \in 1..Len(kept) :
          /\ built.offsets[k].location = kept[k].location
          /\ built.offsets[k].text = Strip(kept[k].text)
          /\ built.starts[k] = built.offsets[k].start
          /\ SubSeq(built.full_text, built.offsets[k].start + 1,
                    built.offsets[k].end)
               = built.offsets[k].text
          /\ built.offsets[k].start
               = IF k = 1 THEN 0 ELSE built.offsets[k - 1].end + 1

\* _find_offset_index finds the one entry that holds the position, or -1
C20_Lookup(built, position) ==
    /\ Cardinality(C20_Holding(built.offsets, position)) <= 1
    /\ C20_Holding(built.offsets, position) = {}
          => C20_IndexOf(built, position) = -1
    /\ C20_Holding(built.offsets, position) # {}
          => C20_IndexOf(built, position)
               \in C20_Holding(built.offsets, position)

\* every canonical-name hit is discovered with the label of the fragment
\* that holds its start
C20_HitsLabelled(built, officials) ==
    \A h \in 1..Len(officials) :
        \E i \in 1..Len(op.discovered) :
            /\ op.discovered[i].candidate = officials[h].group
            /\ op.discovered[i].location
                 = built.offsets[
                       C20_IndexOf(built, officials[h].start) + 1].location

\* C20: the joined text and its offset table are consistent: fragments
\* that are empty after trimming have no entry; the entries are in input
\* order, each with its label and trimmed text; full_text[start:end]
\* equals the text of every entry; the first entry starts at 0 and each
\* next one at the end of the previous plus 1; _find_offset_index returns
\* the one entry whose range holds the position, or -1 for a separator
\* position; and a canonical-name hit is discovered with the label of the
\* fragment that holds its start.
C20_OffsetTableConsistent ==
    Reviewed =>
        \A built \in {BuiltOfInput} :
            /\ C20_Entries(built, C20_Kept)
            /\ \A position \in 0..Len(built.full_text) :
                  C20_Lookup(built, position)
            /\ C20_HitsLabelled(built, OfficialHitsIn(built))

\* a review of two items with text, the second of them holding a
\* canonical-name hit that is discovered with the second label
C20_Witness ==
    /\ Reviewed
    /\ Len(C20_Kept) = 2
    /\ \E i \in 1..Len(op.discovered) :
          /\ op.discovered[i].location = C20_Kept[2].location
          /\ op.discovered[i].candidate = Strip(C20_Kept[2].text)
          /\ IsCanonical(op.discovered[i].candidate)

-----------------------------------------------------------------------------
(* C21 *)

\* C21: the similarity cache never changes a result: after any sequence of
\* earlier check and find_all_in_text calls, a call returns what it returns
\* on a fresh NameMatcher, and every cached entry equals what
\* _best_similarity computes without the cache.
C21_CacheTransparent ==
    /\ op.name = "check" =>
          op.output = check(master_names, EmptyCache, op.input).result
    /\ op.name = "find_all_in_text" =>
          op.output
            = find_all_in_text(master_names, EmptyCache, op.input).result
    /\ \A t \in DOMAIN similarity_cache :
          similarity_cache[t] = ComputeBestSimilarity(master_names, t)

\* a call of check served from the cache: the text was in the cache, among
\* three or more, when the call was made, and check classified it by its
\* similarity
C21_Witness ==
    /\ op.name = "check"
    /\ Cardinality(DOMAIN similarity_cache) >= 3
    /\ _normalize(master_names, op.input) \in op.cached
    /\ op.output # None
    /\ HasReason(op.output, "TypoSuspected")

-----------------------------------------------------------------------------
(* C22 *)

\* the normalized input of check is a bare body plus exactly one more
\* character, and containment yields exactly one canonical name
C22_Case ==
    /\ op.name = "check"
    /\ \E i \in 1..Len(master_names) :
          /\ Len(Normalized) = Len(BareOf(i)) + 1
          /\ StartsWith(Normalized, BareOf(i))
    /\ Len(_find_containing_matches(master_names, Normalized)) = 1

\* check returned Mismatch 'typo suspected' with a suggestion, and not
\* 'incomplete name'
C22_Reported ==
    /\ op.output # None
    /\ op.output.status = "Mismatch"
    /\ HasReason(op.output, "TypoSuspected")
    /\ ~HasReason(op.output, "Incomplete")
    /\ IsCanonical(op.output.suggestion)

\* C22 as stated: in that case check returns Mismatch 'typo suspected' with
\* a suggestion.
C22_Original == C22_Case => C22_Reported

\* containment finds the bare body that the input extends: it is at least
\* 4 characters long
C22_ExtendsContained ==
    \E i \in 1..Len(master_names) :
        /\ Len(Normalized) = Len(BareOf(i)) + 1
        /\ StartsWith(Normalized, BareOf(i))
        /\ Len(BareOf(i)) >= MinContainLen

\* C22: when the input is not rejected by the exclusion filter, its
\* normalized form equals a bare body of at least 4 characters plus exactly
\* one extra trailing character and containment yields exactly one
\* canonical name, check does not return 'incomplete name' but Mismatch
\* 'typo suspected' with a suggestion.
C22_SingleAppendIsTypo ==
    (C22_Case /\ C22_ExtendsContained /\ ~Rejected(Trimmed)) => C22_Reported

\* check was called on a bare body with one more character and classified
\* it as a typo of the one name that contains it
C22_Witness ==
    /\ C22_Case
    /\ ~Rejected(Trimmed)
    /\ C22_Reported
    /\ op.output.suggestion
         = _find_containing_matches(master_names, Normalized)[1]

-----------------------------------------------------------------------------
(* C25 *)

\* C25: every candidate that find_all_in_text returns is classifiable:
\* check applied to it returns a Match or Mismatch result, never no
\* result.
C25_CandidatesClassifiable ==
    op.name = "find_all_in_text" =>
        \A k \in 1..Len(op.output) :
            check(master_names, EmptyCache, op.output[k]).result # None

-----------------------------------------------------------------------------
(* C23 *)

\* the names of the raw list that are not None
C23_Given == SelectSeq(op.input, LAMBDA raw : raw # RawNone)

\* name is the raw name without the blanks and byte-order marks around it
C23_CleanOf(name, raw) ==
    \E i \in 1..(Len(raw) + 1) :
        /\ i + Len(name) - 1 <= Len(raw)
        /\ SubSeq(raw, i, i + Len(name) - 1) = name
        /\ \A k \in 1..(i - 1) : raw[k] \in {" ", "BOM"}
        /\ \A k \in (i + Len(name))..Len(raw) : raw[k] = " "

\* C23: the list returned by _sanitize_master_names contains no duplicate,
\* no empty string and no name that starts or ends with whitespace or
\* starts with a byte-order mark, for every raw list, and its names stand
\* in the order of their first occurrence in the input.
C23_Sanitized ==
    op.name = "_sanitize_master_names" =>
        /\ NoDuplicate(op.output)
        /\ \A k \in 1..Len(op.output) :
              /\ op.output[k] # <<>>
              /\ ~IsSpace(op.output[k][1])
              /\ ~IsSpace(op.output[k][Len(op.output[k])])
              /\ op.output[k][1] # "BOM"
        /\ \A k, l \in 1..Len(op.output) :
              k < l =>
                \E i \in 1..Len(C23_Given) :
                    /\ C23_CleanOf(op.output[k], C23_Given[i])
                    /\ \A j \in 1..i :
                          ~C23_CleanOf(op.output[l], C23_Given[j])

-----------------------------------------------------------------------------
(* C24 *)

\* the k-th result of the batch is of a file whose extraction raised
C24_Raised(k) == app.all_results[k].overall = "ExtractionError"

\* the log presents the k-th file as an error, with its message
C24_LoggedAsError(k) ==
    \E i \in 1..Len(app.log) :
        /\ app.log[i].kind = "error"
        /\ app.log[i].idx = k
        /\ app.log[i].text = app.all_results[k].error[1]

\* the log presents the k-th file as compliant
C24_LoggedAsCompliant(k) ==
    \E i \in 1..Len(app.log) :
        /\ app.log[i].kind = "compliant"
        /\ app.log[i].idx = k

\* the report just written has an error row of the k-th file, with its
\* message
C24_ErrorRow(k) ==
    \E r \in 1..Len(op.output) :
        /\ op.output[r].file = app.all_results[k].file
        /\ op.output[r].input = "ExtractionError"
        /\ op.output[r].issue = app.all_results[k].error[1]

\* the batch came to its summary
C24_BatchDone ==
    \E i \in 1..Len(app.log) : app.log[i].kind = "batch_done"

\* C24: in a batch run every file whose extraction raised is presented as
\* an error, in the log and as an error row of the report carrying its
\* message, and never as compliant, whatever the message is (an empty one
\* too); and the files after it are still reviewed, so that a batch that
\* comes to its summary has a result of every file
C24_RaisedIsPresentedAsError ==
    /\ \A k \in 1..Len(app.all_results) :
          C24_Raised(k) =>
              /\ C24_LoggedAsError(k)
              /\ ~C24_LoggedAsCompliant(k)
              /\ op.name = "save_excel_report" => C24_ErrorRow(k)
    /\ C24_BatchDone => Len(app.all_results) = Len(app.review.files)

-----------------------------------------------------------------------------
(* C26 *)

\* a review batch and a sync are not under way together
C26_Exclusive == ~(app.is_reviewing /\ app.is_syncing)

\* the files of the batch reviewed so far were all reviewed by the engine
\* the window holds while the batch runs
C26_SameIndex ==
    \A i \in 1..Len(app.review.used) :
        /\ app.review.used[i] = app.review.used[1]
        /\ app.is_reviewing => app.review.used[i] = app.engine

\* a step taken while a batch runs replaces neither matcher nor engine
C26_EngineKept ==
    app.is_reviewing =>
        /\ app'.matcher = app.matcher
        /\ app'.engine = app.engine
        /\ master_names' = master_names

\* C26: a review batch and a master-DB sync never overlap: is_reviewing and
\* is_syncing are never both true, matcher and engine are not replaced
\* between the start and the end of a batch, and all files of a batch are
\* reviewed against the same Master Index, under every interleaving of the
\* UI thread, the review worker and the sync worker
C26_ReviewAndSyncNeverOverlap ==
    /\ [](C26_Exclusive /\ C26_SameIndex)
    /\ [][C26_EngineKept]_vars

\* a batch has reviewed two files with the engine of the server's list and
\* found a mismatch
C26_Witness ==
    /\ app.is_reviewing
    /\ Len(app.review.used) >= 2
    /\ app.db_source = "server"
    /\ \E i \in 1..Len(app.log) : app.log[i].kind = "mismatch"

-----------------------------------------------------------------------------
(* C27 *)

\* a started sync has its worker running and no event queued, or its
\* worker done and one event queued; without a sync there is neither
C27_OneEvent ==
    IF app.is_syncing
    THEN \/ app.sync = "running" /\ app.sync_queue = <<>>
         \/ app.sync = "none" /\ Len(app.sync_queue) = 1
                              /\ app.sync_queue[1].type \in {"success", "failure"}
    ELSE app.sync = "none" /\ app.sync_queue = <<>>

C27_Unlocked ==
    /\ ~app.is_reviewing
    /\ app.review_btn = "normal"
    /\ app.sync_btn = "normal"

\* C27: every started operation releases its flag: after _sync_db set
\* is_syncing the sync worker enqueues exactly one success or failure event
\* and the poll of the event loop eventually resets is_syncing; after
\* _start_review set is_reviewing the worker eventually resets it and the
\* UI is unlocked, also when the batch raises
C27_FlagsReleased ==
    /\ []C27_OneEvent
    /\ app.is_syncing ~> ~app.is_syncing
    /\ app.is_reviewing ~> C27_Unlocked

\* a batch that raised was ended and the UI unlocked, and a sync that
\* failed has released its flag
C27_Witness ==
    /\ C27_Unlocked
    /\ ~app.is_syncing
    /\ \E i \in 1..Len(app.log) : app.log[i].kind = "unexpected"
    /\ app.log[Len(app.log)].kind = "sync_failed"

-----------------------------------------------------------------------------
(* C28 *)

\* the engine's matcher is the window's matcher, built from master_names
C28_EngineOfCurrentNames ==
    /\ app.matcher = master_names
    /\ app.engine = app.matcher

\* when the fetch fails load_master_names returns the built-in list with
\* source '내장DB' and the error recorded, and the worker's event is a
\* failure
C28_FailedLoad ==
    \A response \in Responses :
        fetch_master_from_server(response).raises =>
            /\ load_master_names(response).names =
                   _sanitize_master_names(BuiltinNames)
            /\ load_master_names(response).source = "builtin"
            /\ load_master_names(response).last_error =
                   fetch_master_from_server(response).error
            /\ SyncEvent(load_master_names(response)).type = "failure"

\* the poll applies a failure: nothing but the flag, the button and the log
\* changes
C28_FailureKeeps ==
    (app.sync_queue # <<>> /\ app.sync_queue[1].type = "failure"
        /\ app'.sync_queue = <<>>) =>
        /\ master_names' = master_names
        /\ app'.matcher = app.matcher
        /\ app'.engine = app.engine
        /\ app'.db_source = app.db_source
        /\ similarity_cache' = similarity_cache
        /\ ~app'.is_syncing

\* the poll applies a success: the list, the matcher and the engine are
\* replaced together
C28_SuccessReplaces ==
    (app.sync_queue # <<>> /\ app.sync_queue[1].type = "success"
        /\ app'.sync_queue = <<>>) =>
        /\ master_names' = app.sync_queue[1].payload
        /\ app'.matcher = master_names'
        /\ app'.engine = master_names'
        /\ app'.db_source = "server"

\* C28: a failed DB sync changes nothing but the flag: load_master_names
\* does not raise and reports the source '내장DB' with the error recorded
\* when the fetch fails, the sync worker then enqueues a failure, applying
\* it leaves master_names, matcher, engine and db_source as they were, and
\* a successful sync replaces master_names, matcher and engine together,
\* so that the engine's matcher is always built from the current
\* master_names
C28_FailedSyncKeepsState ==
    /\ [](C28_EngineOfCurrentNames /\ C28_FailedLoad)
    /\ [][C28_FailureKeeps /\ C28_SuccessReplaces]_vars

\* a sync failed on a window that holds the server's list
C28_Witness ==
    /\ app.log # <<>>
    /\ app.log[Len(app.log)].kind = "sync_failed"
    /\ ~app.is_syncing
    /\ app.db_source = "server"
    /\ app.engine = ServerNames

====
